---- MODULE Spec2Model ----
(***************************************************************************)
(* A model of campfhir/wsv: the line tokenizer (reader.parseLine), the     *)
(* line reader (reader.Reader), the field serializer (record.Field), the   *)
(* document model (document.Document, document.documentLine) and its sort  *)
(* engine and streaming writer.                                            *)
(*                                                                         *)
(* Text is modelled as sequences of one-character strings; the byte        *)
(* indices of the Go code are 0-based and kept so (At(line, i)).           *)
(***************************************************************************)
EXTENDS Integers, Sequences, FiniteSets, TLC

(***************************************************************************)
(* Bounds of the model                                                     *)
(***************************************************************************)
\* longest raw line drawn for the tokenizer round trip
MaxLineLen == 4
\* most physical lines in a reader input
MaxInputLines == 3
\* most lines added to a document through the API
MaxDocLines == 2
\* most Append/AppendNull calls accepted per line in the API model
MaxAppends == 2
\* number of data rows of the sorted table
SortRows == 3
\* most SortBy calls on a document
MaxSorts == 2

\* most lines of a document whose header line is followed
MaxHeaderLines == 4

\* most UpdateField calls on a document
MaxUpdates == 1

\* most ResetWrite calls on a document
MaxResets == 1
\* Read calls made beyond the number of physical lines of the input
ExtraReads == 2

(***************************************************************************)
(* Characters and strings                                                  *)
(***************************************************************************)
Nil == "nil"

DQ == "\""

\* utils.IsFieldDelimiter: a whitespace rune
IsFieldDelimiter(c) == c \in {" ", "\t"}

Min(a, b) == IF a < b THEN a ELSE b

Max(a, b) == IF a > b THEN a ELSE b

\* the byte at 0-based index i, or Nil outside the slice
At(line, i) == IF i >= 0 /\ i < Len(line) THEN line[i + 1] ELSE Nil

\* line[i:]
From(line, i) == SubSeq(line, i + 1, Len(line))

\* strings.Contains(s, sub)
Contains(s, sub) ==
  \E k \in 1..(Len(s) - Len(sub) + 1) : SubSeq(s, k, k + Len(sub) - 1) = sub

\* strings.ContainsFunc(s, IsFieldDelimiter)
ContainsDelimiter(s) == \E k \in 1..Len(s) : IsFieldDelimiter(s[k])

\* bytes.IndexFunc(s, IsFieldDelimiter): 0-based index of the first delimiter, -1 if none
IndexDelimiter(s) ==
  IF ContainsDelimiter(s)
  THEN (CHOOSE k \in 1..Len(s) :
          IsFieldDelimiter(s[k]) /\ \A j \in 1..(k - 1) : ~IsFieldDelimiter(s[j])) - 1
  ELSE -1

\* bytes.TrimSuffix(s, suffix) for a one-byte suffix
TrimSuffix(s, c) == IF Len(s) > 0 /\ s[Len(s)] = c THEN SubSeq(s, 1, Len(s) - 1) ELSE s

\* strings.ReplaceAll(s, old, new) for a one-byte old
RECURSIVE ReplaceAll(_, _, _)
ReplaceAll(s, c, new) ==
  IF s = <<>> THEN <<>>
  ELSE (IF Head(s) = c THEN new ELSE <<Head(s)>>) \o ReplaceAll(Tail(s), c, new)

\* fmt.Sprintf(`"%s"`, v)
Wrap(v) == <<DQ>> \o v \o <<DQ>>

NewlineEscape == <<DQ, "/", DQ>>

(***************************************************************************)
(* record.Field                                                            *)
(***************************************************************************)
Field(value, isNull, fieldIndex, rowIndex, fieldName, isHeader) ==
  [Value |-> value, IsNull |-> isNull, FieldIndex |-> fieldIndex,
   RowIndex |-> rowIndex, FieldName |-> fieldName, IsHeader |-> isHeader]

\* the steps of the non-null branch of Field.SerializeText on s = [v, wrapped]
wrapQuotes(s) ==
  IF Contains(s.v, <<DQ, DQ>>) /\ ~s.wrapped
  THEN [v |-> Wrap(s.v), wrapped |-> TRUE] ELSE s

\* the test for a dash does not look at wrapped
wrapDash(s) ==
  IF Contains(s.v, <<"-">>) THEN [v |-> Wrap(s.v), wrapped |-> TRUE] ELSE s

escapeNewlines(s) == [s EXCEPT !.v = ReplaceAll(@, "\n", NewlineEscape)]

wrapNewlines(s) ==
  IF Contains(s.v, NewlineEscape) /\ ~s.wrapped
  THEN [v |-> Wrap(s.v), wrapped |-> TRUE] ELSE s

wrapDelimiters(s) ==
  IF ContainsDelimiter(s.v) /\ ~s.wrapped
  THEN [v |-> Wrap(s.v), wrapped |-> TRUE] ELSE s

emptyAsQuotes(s) == IF s.v = <<>> THEN <<DQ, DQ>> ELSE s.v

\* the non-null branch of Field.SerializeText, step by step as the code runs it
SerializeValue(value) ==
  emptyAsQuotes(wrapDelimiters(wrapNewlines(escapeNewlines(wrapDash(wrapQuotes(
    [v |-> ReplaceAll(value, DQ, <<DQ, DQ>>), wrapped |-> FALSE]))))))

SerializeText(f) == IF f.IsNull THEN <<"-">> ELSE SerializeValue(f.Value)

CalculateFieldLength(f) == Len(SerializeText(f))

(***************************************************************************)
(* reader.parseLine                                                        *)
(***************************************************************************)
\* an error value: nil, a sentinel (io.EOF, ErrReaderEnded, ...), a *ParseError or an
\* *InvalidFieldCountError, told apart by kind
Error(kind, n, fieldPosition, columnPosition, fields, headers) ==
  [kind |-> kind, Line |-> n, FieldPosition |-> fieldPosition,
   ColumnPosition |-> columnPosition, Fields |-> fields, Headers |-> headers]

NoError == Error("nil", 0, 0, 0, <<>>, <<>>)

Sentinel(kind) == Error(kind, 0, 0, 0, <<>>, <<>>)

ParseError(kind, n, fieldPosition, columnPosition) ==
  Error(kind, n, fieldPosition, columnPosition, <<>>, <<>>)

InvalidFieldCountError(n, fields, headers) ==
  Error("InvalidFieldCountError", n, 0, 0, fields, headers)

lineField(value, isComment, isNull, col) ==
  [Value |-> value, IsComment |-> isComment, IsNull |-> isNull, Col |-> col]

\* the three-byte lookback b3 b2 b1 spells the newline escape
LookbackIsNewlineEscape(line, i) ==
  i >= 2 /\ At(line, i - 2) = DQ /\ At(line, i - 1) = "/" /\ At(line, i) = DQ

\* len(line)-1 == i || (len(line)-1 > i && IsFieldDelimiter(nextRune(line[i+1:])))
AtFieldEnd(line, i) ==
  Len(line) - 1 = i \/ (Len(line) - 1 > i /\ IsFieldDelimiter(At(line, i + 1)))

parseInit ==
  [doubleQuoted |-> FALSE, isNull |-> FALSE, startDoubleQuote |-> 0,
   escapedDoubleQuote |-> 0, data |-> <<>>, str |-> <<>>, stop |-> FALSE,
   err |-> NoError]

\* case '#'
parseHash(n, line, i, s) ==
  IF ~s.doubleQuoted
  THEN IF Len(From(line, i)) < 2
       THEN [s EXCEPT !.stop = TRUE]
       ELSE [s EXCEPT !.str = Append(@, lineField(
                         TrimSuffix(s.data \o From(line, i + 1), "\n"),
                         TRUE, s.isNull, i)),
                      !.data = <<>>, !.stop = TRUE]
  ELSE [s EXCEPT !.data = Append(@, "#")]

\* case '"'
parseQuote(n, line, i, s) ==
  LET b2 == At(line, i - 1)
      b3 == At(line, i - 2)
  IN IF LookbackIsNewlineEscape(line, i)
     THEN [s EXCEPT !.data = Append(TrimSuffix(@, "/"), "\n")]
     ELSE IF (b2 = Nil \/ IsFieldDelimiter(b2)) /\ ~s.doubleQuoted
     THEN [s EXCEPT !.doubleQuoted = TRUE, !.startDoubleQuote = i]
     ELSE IF (b3 = Nil \/ IsFieldDelimiter(b3)) /\ b2 = DQ /\ AtFieldEnd(line, i)
     THEN [s EXCEPT !.data = <<>>,
                    !.str = Append(@, lineField(<<>>, FALSE, s.isNull, i)),
                    !.doubleQuoted = FALSE]
     ELSE IF /\ b2 = DQ
             /\ (b3 = Nil \/ b3 # DQ)
             /\ ~(Len(line) - 1 > i + 1 /\ IsFieldDelimiter(At(line, i + 1))
                  /\ b3 # Nil /\ b3 = "/")
             /\ ~(Len(line) - 1 > i + 2 /\ At(line, i + 1) = "/"
                  /\ At(line, i + 2) = DQ)
     THEN [s EXCEPT !.data = Append(@, DQ), !.escapedDoubleQuote = i]
     ELSE IF /\ s.doubleQuoted
             /\ AtFieldEnd(line, i)
             /\ (b2 = Nil \/ b2 # DQ \/ i > s.escapedDoubleQuote)
     THEN [s EXCEPT !.doubleQuoted = FALSE]
     ELSE s

\* case '-': the null flag
flagNull(line, i, s) ==
  IF At(line, i) = "-" /\ (At(line, i - 1) = Nil \/ IsFieldDelimiter(At(line, i - 1)))
     /\ ~s.doubleQuoted
  THEN [s EXCEPT !.isNull = TRUE] ELSE s

\* default: the newline escape seen in the lookback
lookbackNewline(line, i, s) ==
  IF LookbackIsNewlineEscape(line, i)
  THEN [s EXCEPT !.data = Append(TrimSuffix(@, "/"), "\n")] ELSE s

\* default: a delimiter outside quotes ends the field; any other byte is data
parseDelimiter(n, line, i, s) ==
  IF IsFieldDelimiter(At(line, i)) /\ ~s.doubleQuoted
  THEN IF Len(s.data) = 0 /\ ~s.isNull
       THEN s
       ELSE IF s.data = <<DQ>>
       THEN [s EXCEPT !.stop = TRUE, !.err = ParseError("ErrBareQuote", n, i, 0)]
       ELSE [s EXCEPT !.str = Append(@, lineField(s.data, FALSE, s.isNull, i)),
                      !.isNull = FALSE, !.data = <<>>]
  ELSE IF s.isNull /\ At(line, i) = "-"
  THEN s
  ELSE [s EXCEPT !.data = Append(@, At(line, i))]

\* default: a null flag at the end of the line, or followed by more bytes
parseNull(n, line, i, s) ==
  LET flagged == s.isNull /\ Len(line) - 1 > i /\ IndexDelimiter(From(line, i)) # 1
      dashThenDelimiter == At(line, i - 1) = "-" /\ IsFieldDelimiter(At(line, i))
  IN IF s.isNull /\ Len(line) - 1 = i
     THEN [s EXCEPT !.str = Append(@, lineField(<<>>, FALSE, TRUE, i)), !.stop = TRUE]
     ELSE IF flagged /\ ~dashThenDelimiter
     THEN [s EXCEPT !.stop = TRUE, !.err = ParseError("ErrInvalidNull", n, i, i)]
     ELSE parseDelimiter(n, line, i,
                         IF flagged /\ dashThenDelimiter THEN [s EXCEPT !.data = <<>>]
                         ELSE s)

\* case '-' (which falls through) and default
parseDefault(n, line, i, s0) ==
  parseNull(n, line, i, lookbackNewline(line, i, flagNull(line, i, s0)))

\* one iteration of lineLoop
parseStep(n, line, i, s) ==
  LET r == At(line, i)
  IN IF r = "\n" THEN [s EXCEPT !.stop = TRUE]
     ELSE IF r = "#" THEN parseHash(n, line, i, s)
     ELSE IF r = DQ THEN parseQuote(n, line, i, s)
     ELSE parseDefault(n, line, i, s)

RECURSIVE parseLoop(_, _, _, _)
parseLoop(n, line, i, s) ==
  IF i >= Len(line) \/ s.stop THEN s
  ELSE parseLoop(n, line, i + 1, parseStep(n, line, i, s))

\* what parseLine does after lineLoop, on the state s the loop ended in
parseEnd(n, s) ==
  IF s.err.kind # "nil" THEN [fields |-> s.str, err |-> s.err]
  ELSE IF s.doubleQuoted
  THEN [fields |-> s.str,
        err |-> ParseError("ErrBareQuote", n, s.startDoubleQuote, s.startDoubleQuote)]
  ELSE IF Len(s.data) > 0
  THEN IF s.data = <<DQ>>
       THEN [fields |-> s.str,
             err |-> ParseError("ErrBareQuote", n, s.startDoubleQuote,
                                s.startDoubleQuote)]
       ELSE [fields |-> Append(s.str, lineField(s.data, FALSE, s.isNull, 0)),
             err |-> NoError]
  ELSE [fields |-> s.str, err |-> NoError]

\* parseLine(n, line) -> [fields, err]
parseLine(n, line) == parseEnd(n, parseLoop(n, line, 0, parseInit))

(***************************************************************************)
(* reader.Reader                                                           *)
(***************************************************************************)
readerLine(n) ==
  [fields |-> <<>>, comment |-> <<>>, line |-> n, fieldCount |-> 0,
   isHeaderLine |-> FALSE]

\* NewReader over a byte stream, with the three public switches as given
\* (NewReader itself sets IsTabular, IncludesHeader and clears NullTrailingColumns)
Reader(input, isTabular, includesHeader, nullTrailingColumns) ==
  [input |-> input, offset |-> 0, numLine |-> 0, lines |-> <<>>, headers |-> <<>>,
   IncludesHeader |-> includesHeader, IsTabular |-> isTabular,
   NullTrailingColumns |-> nullTrailingColumns, ended |-> FALSE, firstDataRow |-> 0,
   AllowPartialError |-> FALSE]

NewReader(input) == Reader(input, TRUE, TRUE, FALSE)

\* columnName(headers, index): "" when the index does not exist
columnName(headers, index) ==
  IF index >= 0 /\ index < Len(headers) THEN headers[index + 1] ELSE <<>>

\* bufio.Reader.ReadSlice('\n') on the unread bytes -> [slice, eof]: the bytes up
\* to and including the first LF, or all of them and io.EOF when there is none
ReadSlice(rest) ==
  IF \E k \in 1..Len(rest) : rest[k] = "\n"
  THEN [slice |-> SubSeq(rest, 1, CHOOSE k \in 1..Len(rest) :
                            rest[k] = "\n" /\ \A j \in 1..(k - 1) : rest[j] # "\n"),
        eof |-> FALSE]
  ELSE [slice |-> rest, eof |-> TRUE]

\* readLine: a CR before the end of input is dropped
dropFinalCR(s) == IF Len(s.slice) > 0 /\ s.eof THEN TrimSuffix(s.slice, "\r") ELSE s.slice

\* readLine: CR LF becomes LF, and the trailing LF is trimmed
trimLineEnd(l) ==
  TrimSuffix(IF Len(l) >= 2 /\ l[Len(l) - 1] = "\r" /\ l[Len(l)] = "\n"
             THEN Append(SubSeq(l, 1, Len(l) - 2), "\n") ELSE l, "\n")

readLineSlice(r, s) ==
  [r |-> [r EXCEPT !.numLine = @ + 1, !.offset = @ + Len(s.slice)],
   line |-> trimLineEnd(dropFinalCR(s)),
   err |-> IF s.eof /\ Len(s.slice) = 0 THEN Sentinel("EOF") ELSE NoError]

\* Reader.readLine -> [r, line, err]: one physical line, its terminator removed
readLine(r) == readLineSlice(r, ReadSlice(From(r.input, r.offset)))

\* readerLine.FieldsValues
FieldsValues(line) == [k \in 1..Len(line.fields) |-> SerializeText(line.fields[k])]

\* the extra raw values an over-count error carries: fields[i:] rendered
extraFields(fields, i) ==
  [k \in 1..(Len(fields) - i) |->
     IF fields[i + k].IsNull THEN <<"-">> ELSE SerializeValue(fields[i + k].Value)]

\* faulty variants of the tests below, used to show that the properties of the
\* reader depend on them
isFirstDataRow_anyToken(r, fields) == Len(fields) > 0 /\ r.firstDataRow = 0

commentMisplaced_alsoFirst(r, i) == i < Len(r.headers) /\ r.IsTabular

underCount_never(r, line) == FALSE

markEnded_forgotten(r) == r

\* Read's test for the first data row: the line has tokens, no first data row is
\* known yet and the first token is no comment
isFirstDataRow(r, fields) ==
  Len(fields) > 0 /\ r.firstDataRow = 0 /\ ~fields[1].IsComment

\* Read's test that the comment token at index i is misplaced
commentMisplaced(r, i) == i < Len(r.headers) /\ i # 0 /\ r.IsTabular

\* Read's test that the field just counted exceeds the header count
overCount(r, fieldCount) ==
  r.IsTabular /\ r.IncludesHeader /\ Len(r.headers) < fieldCount

\* Read's test that missing trailing columns are padded with nulls
padsTrailing(r, line) ==
  r.numLine # 1 /\ r.NullTrailingColumns /\ Len(line.fields) < Len(r.headers)

\* Read's test that the line read has too few fields
underCount(r, line) ==
  r.IsTabular /\ r.IncludesHeader /\ ~r.NullTrailingColumns
    /\ Len(r.headers) > line.fieldCount

\* Read marks the reader ended when readLine reports the end of input
markEnded(r) == [r EXCEPT !.ended = TRUE]

\* the loop over the tokens of one line in Reader.Read, from token i on;
\* c = [r, line, err, returned]
RECURSIVE readFields(_, _, _)
readFields(fields, i, c) ==
  IF i >= Len(fields) \/ c.returned THEN c
  ELSE
    LET field == fields[i + 1]
        r == c.r
        line == c.line
    IN IF r.numLine = r.firstDataRow /\ r.IncludesHeader /\ ~field.IsComment
       THEN readFields(fields, i + 1,
              [c EXCEPT !.r.headers = Append(@, field.Value),
                        !.line.fields = Append(@, Field(field.Value, field.IsNull, i,
                                                        r.numLine, <<>>, TRUE)),
                        !.line.fieldCount = @ + 1])
       ELSE IF field.IsComment
       THEN IF commentMisplaced(r, i)
            THEN [c EXCEPT !.returned = TRUE,
                           !.err = ParseError("ErrCommentPlacement", r.numLine, i + 1,
                                              field.Col)]
            ELSE readFields(fields, i + 1, [c EXCEPT !.line.comment = field.Value])
       ELSE IF overCount(r, line.fieldCount + 1)
       THEN [c EXCEPT !.line.fieldCount = @ + 1,
                      !.returned = TRUE,
                      !.err = InvalidFieldCountError(line.line,
                                FieldsValues(line) \o extraFields(fields, i), r.headers)]
       ELSE readFields(fields, i + 1,
              [c EXCEPT !.line.fieldCount = @ + 1,
                        !.line.fields = Append(@,
                           Field(IF field.IsNull THEN <<>> ELSE field.Value, field.IsNull,
                                 i, r.numLine, columnName(r.headers, i), FALSE))])

\* a faulty variant of nullPadding that leaves the column name unresolved
nullPadding_unnamed(r, line) ==
  [k \in 1..(Len(r.headers) - Len(line.fields)) |->
     Field(<<>>, TRUE, Len(line.fields) + k - 1, r.numLine, <<>>, FALSE)]

\* the null fields Read synthesizes for the missing trailing columns
nullPadding(r, line) ==
  [k \in 1..(Len(r.headers) - Len(line.fields)) |->
     Field(<<>>, TRUE, Len(line.fields) + k - 1, r.numLine,
           columnName(r.headers, Len(line.fields) + k - 1), FALSE)]

\* Read after the token loop, on a line with fields: the field count test
readCount(r, line) ==
  IF underCount(r, line)
  THEN [r |-> r, line |-> line, isNil |-> FALSE,
        err |-> InvalidFieldCountError(line.line, FieldsValues(line), r.headers)]
  ELSE [r |-> [r EXCEPT !.lines = Append(@, line)], line |-> line,
        isNil |-> FALSE, err |-> NoError]

\* Read after the token loop ended in c = [r, line, err, returned]
readPadding(c) ==
  IF c.returned
  THEN [r |-> c.r, line |-> c.line, isNil |-> FALSE, err |-> c.err]
  ELSE IF Len(c.line.fields) = 0
  THEN [r |-> c.r, line |-> c.line, isNil |-> FALSE, err |-> NoError]
  ELSE IF padsTrailing(c.r, c.line)
  THEN readCount(c.r, [c.line EXCEPT
                         !.fields = @ \o nullPadding(c.r, c.line),
                         !.fieldCount = @ + Len(c.r.headers) - Len(c.line.fields)])
  ELSE readCount(c.r, c.line)

\* Read on the tokens of the line: the first data row is noted, and is the
\* header line when headers are included
readTokens(r, line, fields, first) ==
  readPadding(readFields(fields, 0,
    [r |-> IF first THEN [r EXCEPT !.firstDataRow = r.numLine] ELSE r,
     line |-> IF first /\ r.IncludesHeader THEN [line EXCEPT !.isHeaderLine = TRUE]
              ELSE line,
     err |-> NoError, returned |-> FALSE]))

\* Read on the outcome of parseLine: an error ends the call
readParsed(r, line, parsed) ==
  IF parsed.err.kind # "nil"
  THEN [r |-> r, line |-> line, isNil |-> FALSE, err |-> parsed.err]
  ELSE readTokens(r, line, parsed.fields, isFirstDataRow(r, parsed.fields))

\* Read on the outcome rl of readLine
readData(rl) ==
  IF rl.err.kind = "EOF"
  THEN [r |-> markEnded(rl.r), line |-> readerLine(0), isNil |-> FALSE,
        err |-> Sentinel("EOF")]
  ELSE readParsed(rl.r, readerLine(rl.r.numLine), parseLine(rl.r.numLine, rl.line))

\* Reader.Read -> [r, line, isNil, err]
Read(r0) ==
  IF r0.ended
  THEN [r |-> r0, line |-> readerLine(0), isNil |-> TRUE, err |-> Sentinel("ErrReaderEnded")]
  ELSE readData(readLine(r0))

\* ReadAll: the error of a Read call is appended to errs
readAllErrors(errs, rd) ==
  IF rd.err.kind # "nil" THEN Append(errs, rd.err) ELSE errs

\* what ReadAll returns at io.EOF: the records, and a *ParseErrorCollection of
\* the errors when there is one
readAllReturn(r, records, errs) ==
  [r |-> r, records |-> records, returns |-> TRUE,
   err |-> IF Len(errs) > 0 THEN "ParseErrorCollection" ELSE "nil",
   Errs |-> errs]

\* the loop of ReadAll on the outcome rd of Read
RECURSIVE readAllStep(_, _, _)
readAllStep(rd, records, errs) ==
  IF rd.err.kind = "EOF" THEN readAllReturn(rd.r, records, errs)
  ELSE readAllStep(Read(rd.r), Append(records, rd.line), readAllErrors(errs, rd))

\* Reader.ReadAll -> [r, records, returns, err, Errs]. On a reader that has ended
\* every Read returns ErrReaderEnded, never io.EOF, so the loop appends without
\* end and the call does not return
ReadAll(r) ==
  IF r.ended
  THEN [r |-> r, records |-> <<>>, returns |-> FALSE, err |-> "nil", Errs |-> <<>>]
  ELSE readAllStep(Read(r), <<>>, <<>>)

(***************************************************************************)
(* document.Document and document.documentLine                             *)
(***************************************************************************)
\* a line of a document; its back-reference to the document is the document the
\* operators below are handed
documentLine(n) == [fields |-> <<>>, comment |-> <<>>, line |-> n, fieldCount |-> 0]

NewDocument ==
  [Tabular |-> TRUE, EmitHeaders |-> TRUE, lines |-> <<>>,
   maxColumnWidth |-> [c \in {} |-> 0], padding |-> <<" ", " ">>,
   currentWriteLine |-> 0, startedWriting |-> FALSE, headers |-> <<>>,
   headerLine |-> 0, hasHeaders |-> TRUE]

DocError(kind, n, fieldIndex) == Error(kind, n, fieldIndex, 0, <<>>, <<>>)

\* Document.Line(ln) found: lines are 1-indexed
LineExists(doc, ln) == ~(Len(doc.lines) - 1 < ln - 1 \/ ln < 1)

\* faulty variants of AddLine and ResetWrite: one adds the line also after
\* writing has started, the other leaves the write cursor where it is
AddLine_whileWriting(doc) ==
  [doc |-> [doc EXCEPT !.lines = Append(@, [fields |-> <<>>, comment |-> <<>>,
                                             line |-> Len(doc.lines) + 1,
                                             fieldCount |-> 0])],
   err |-> Error("nil", 0, 0, 0, <<>>, <<>>)]

ResetWrite_keepsCursor(doc) == [doc EXCEPT !.startedWriting = FALSE]

\* Document.AddLine -> [doc, err]
AddLine(doc) ==
  IF doc.startedWriting
  THEN [doc |-> doc, err |-> DocError("ErrStartedToWrite", doc.currentWriteLine, 0)]
  ELSE [doc |-> [doc EXCEPT !.lines = Append(@, documentLine(Len(doc.lines) + 1))],
        err |-> NoError]

\* Document.SetMaxColumnWidth
SetMaxColumnWidth(doc, col, len) ==
  IF col \notin DOMAIN doc.maxColumnWidth
  THEN [doc EXCEPT !.maxColumnWidth = @ @@ (col :> len)]
  ELSE IF doc.maxColumnWidth[col] < len
  THEN [doc EXCEPT !.maxColumnWidth[col] = len]
  ELSE doc

\* documentLine.IsHeader
IsHeader(doc, line) == doc.hasHeaders /\ doc.headerLine = line.line

\* checkFieldIndex with one field more than the header let through
checkFieldIndex_onePast(doc, line, fieldInd) ==
  IF ~doc.Tabular \/ line.line = doc.headerLine THEN FALSE
  ELSE IF Len(doc.lines) <= 1 THEN TRUE
  ELSE IF ~LineExists(doc, doc.headerLine) THEN TRUE
  ELSE doc.lines[doc.headerLine].fieldCount - fieldInd < 0

\* documentLine.checkFieldIndex: TRUE when the append at fieldInd is refused
checkFieldIndex(doc, line, fieldInd) ==
  IF ~doc.Tabular \/ line.line = doc.headerLine THEN FALSE
  ELSE IF Len(doc.lines) <= 1 THEN TRUE
  ELSE IF ~LineExists(doc, doc.headerLine) THEN TRUE
  ELSE doc.lines[doc.headerLine].fieldCount - fieldInd <= 0

\* Append and AppendNull: the field belongs to the header line
claimsHeader(doc, line) ==
  doc.hasHeaders /\ (doc.headerLine = 0 \/ line.line = doc.headerLine)

\* the first half of Append and AppendNull: the header line is claimed before the
\* field index is checked
claimHeader(doc, line) ==
  IF claimsHeader(doc, line) THEN [doc EXCEPT !.headerLine = line.line] ELSE doc

\* the column name Append gives the field at fieldInd
appendName(doc, line, fieldInd, asHeader, val) ==
  IF line.line > doc.headerLine /\ Len(doc.headers) - 1 >= fieldInd
  THEN doc.headers[fieldInd + 1]
  ELSE IF asHeader THEN val ELSE <<>>

\* the column name AppendNull gives the field at fieldInd
appendNullName(doc, line, fieldInd, asHeader) ==
  IF line.line > doc.headerLine /\ Len(doc.headers) - 1 > fieldInd
  THEN doc.headers[fieldInd + 1]
  ELSE IF asHeader THEN <<"-">> ELSE <<>>

\* a field appended on the header line is a header name too
appendHeader(doc, ln, name) ==
  IF doc.hasHeaders /\ doc.lines[ln].line = doc.headerLine
  THEN [doc EXCEPT !.headers = Append(@, name)] ELSE doc

\* the second half of Append and AppendNull: the field is stored, the column
\* width and the header names follow
storeField(doc, ln, field, name) ==
  appendHeader(
    SetMaxColumnWidth([doc EXCEPT !.lines[ln].fields = Append(@, field),
                                  !.lines[ln].fieldCount = @ + 1],
                      field.FieldIndex, CalculateFieldLength(field)),
    ln, name)

\* a refused append that still counts the field
refuseAppend_counted(doc, ln) ==
  [doc |-> [doc EXCEPT !.lines[ln].fieldCount = @ + 1], err |-> Sentinel("ErrFieldCount")]

\* Append and AppendNull refused by checkFieldIndex: nothing is stored
refuseAppend(doc, ln) == [doc |-> doc, err |-> Sentinel("ErrFieldCount")]

appendChecked(doc, ln, val, asHeader) ==
  IF checkFieldIndex(doc, doc.lines[ln], Len(doc.lines[ln].fields))
  THEN refuseAppend(doc, ln)
  ELSE [doc |-> storeField(doc, ln,
                  Field(val, FALSE, Len(doc.lines[ln].fields), 0,
                        appendName(doc, doc.lines[ln], Len(doc.lines[ln].fields),
                                   asHeader, val),
                        asHeader),
                  val),
        err |-> NoError]

appendNullChecked(doc, ln, asHeader) ==
  IF checkFieldIndex(doc, doc.lines[ln], Len(doc.lines[ln].fields))
  THEN refuseAppend(doc, ln)
  ELSE [doc |-> storeField(doc, ln,
                  Field(<<>>, TRUE, Len(doc.lines[ln].fields), 0,
                        appendNullName(doc, doc.lines[ln], Len(doc.lines[ln].fields),
                                       asHeader),
                        asHeader),
                  <<"-">>),
        err |-> NoError]

\* documentLine.Append(val) on the line at position ln -> [doc, err]
AppendTo(doc0, ln, val) ==
  appendChecked(claimHeader(doc0, doc0.lines[ln]), ln, val,
                claimsHeader(doc0, doc0.lines[ln]))

\* documentLine.AppendNull() on the line at position ln -> [doc, err]
AppendNullTo(doc0, ln) ==
  appendNullChecked(claimHeader(doc0, doc0.lines[ln]), ln,
                    claimsHeader(doc0, doc0.lines[ln]))

\* UpdateField with the null flag cleared as well
updateValue_clearsNull(field, val) == [field EXCEPT !.Value = val, !.IsNull = FALSE]

\* field.Value = val in UpdateField: the other members of the field stay
updateValue(field, val) == [field EXCEPT !.Value = val]

\* the field stored back by UpdateField, and the column width that follows
updateStored(doc, ln, fieldInd, field) ==
  SetMaxColumnWidth([doc EXCEPT !.lines[ln].fields[fieldInd + 1] = field],
                    fieldInd, CalculateFieldLength(field))

\* documentLine.UpdateField(fieldInd, val) on the line at position ln -> [doc, err]
UpdateField(doc, ln, fieldInd, val) ==
  IF Len(doc.lines[ln].fields) - 1 < fieldInd \/ fieldInd < 0
  THEN [doc |-> doc, err |-> Sentinel("ErrFieldIndexedNotFound")]
  ELSE [doc |-> updateStored(doc, ln, fieldInd,
                             updateValue(doc.lines[ln].fields[fieldInd + 1], val)),
        err |-> NoError]

\* documentLine.UpdateComment on the line at position ln
UpdateComment(doc, ln, val) == [doc EXCEPT !.lines[ln].comment = val]

\* Document.SetHideHeaderStyle(v): EmitHeaders is assigned v
SetHideHeaderStyle(doc, v) ==
  IF ~doc.hasHeaders THEN doc ELSE [doc EXCEPT !.EmitHeaders = v]

\* Document.ResetWrite
ResetWrite(doc) == [doc EXCEPT !.startedWriting = FALSE, !.currentWriteLine = 0]

\* the padding loop of Write: single spaces until the rendered width reaches mw
PadTo(v, mw) == v \o [k \in 1..(mw - Len(v)) |-> " "]

\* every field padded to the column width, the last as well
writeField_padsLast(doc, line, i) ==
  PadTo(SerializeText(line.fields[i + 1]), doc.maxColumnWidth[i])

\* the text Write emits for field i of the line: padded to the column width in a
\* tabular document, unless it is the last field
writeField(doc, line, i) ==
  IF doc.Tabular /\ Len(line.fields) - 1 # i
  THEN PadTo(SerializeText(line.fields[i + 1]), doc.maxColumnWidth[i])
  ELSE SerializeText(line.fields[i + 1])

\* the loop over the fields of the line Write renders, from field i on
RECURSIVE writeFields(_, _, _, _)
writeFields(doc, line, i, buf) ==
  IF i >= Len(line.fields) THEN buf
  ELSE IF i \notin DOMAIN doc.maxColumnWidth
  THEN writeFields(doc, line, i + 1, buf)
  ELSE writeFields(doc, line, i + 1,
                   IF i = 0 THEN buf \o writeField(doc, line, i)
                   ELSE buf \o doc.padding \o writeField(doc, line, i))

\* the comment Write emits after the fields in buf
writeComment(doc, line, buf) ==
  IF Len(line.comment) > 0
  THEN IF Len(buf) > 0
       THEN buf \o doc.padding \o <<"#">> \o line.comment
       ELSE <<"#">> \o line.comment
  ELSE buf

\* the rendering of one line by Write: fields, comment, line feed
writeLineBytes(doc, line) ==
  Append(writeComment(doc, line, writeFields(doc, line, 0, <<>>)), "\n")

\* Write on the line at the cursor: the header suppression and field count tests,
\* then the rendering and the advance of the cursor
writeCursorLine(doc, line) ==
  IF doc.hasHeaders /\ ~doc.EmitHeaders /\ doc.currentWriteLine = doc.headerLine
  THEN [doc |-> doc, buf |-> <<>>, err |-> Sentinel("ErrOmitHeaders")]
  ELSE IF doc.Tabular /\ doc.currentWriteLine # 0 /\ line.fieldCount # 0
          /\ line.fieldCount # Len(doc.headers)
  THEN [doc |-> doc, buf |-> <<>>,
        err |-> DocError("ErrFieldCount", line.line, line.fieldCount)]
  ELSE [doc |-> [doc EXCEPT !.currentWriteLine = @ + 1],
        buf |-> writeLineBytes(doc, line), err |-> NoError]

\* Write once startedWriting is set
writeStarted(doc) ==
  IF Len(doc.lines) - 1 < doc.currentWriteLine
  THEN [doc |-> doc, buf |-> <<>>, err |-> Sentinel("EOF")]
  ELSE writeCursorLine(doc, doc.lines[doc.currentWriteLine + 1])

\* Document.Write -> [doc, buf, err]
Write(doc0) == writeStarted([doc0 EXCEPT !.startedWriting = TRUE])

\* Document.WriteAll -> [doc, buf, err]
RECURSIVE writeAllLoop(_, _)
writeAllStep(w, data) ==
  IF w.err.kind = "EOF" THEN [doc |-> w.doc, buf |-> data, err |-> NoError]
  ELSE IF w.err.kind # "nil" THEN [doc |-> w.doc, buf |-> data, err |-> w.err]
  ELSE writeAllLoop(w.doc, data \o w.buf)

writeAllLoop(doc, data) == writeAllStep(Write(doc), data)

WriteAll(doc) == writeAllLoop(doc, <<>>)

\* WriteLine: the header text for field i, "" when there is no header line or it
\* has no field i
writeLineHeader(doc, i) ==
  IF LineExists(doc, doc.headerLine) /\ i < Len(doc.lines[doc.headerLine].fields)
  THEN SerializeText(doc.lines[doc.headerLine].fields[i + 1])
  ELSE <<>>

\* WriteLine: the shorter of header and data is padded with spaces to the length
\* of the other, except in the last column and without the header
writeLinePad(includeHeader, line, i, text, other) ==
  IF includeHeader /\ i < line.fieldCount - 1 THEN PadTo(text, Len(other)) ELSE text

\* strings.Join(elems, sep)
RECURSIVE Join(_, _)
Join(elems, sep) ==
  IF Len(elems) = 0 THEN <<>>
  ELSE IF Len(elems) = 1 THEN elems[1]
  ELSE elems[1] \o sep \o Join(Tail(elems), sep)

\* WriteLine: the slice headerLine after the loop; its length is FieldCount()
writeLineHeaders(doc, line, includeHeader) ==
  [k \in 1..line.fieldCount |->
     IF k <= Len(line.fields)
     THEN writeLinePad(includeHeader, line, k - 1, writeLineHeader(doc, k - 1),
                       SerializeText(line.fields[k]))
     ELSE <<>>]

\* WriteLine: the slice dataLine after the loop
writeLineData(doc, line, includeHeader) ==
  [k \in 1..line.fieldCount |->
     IF k <= Len(line.fields)
     THEN writeLinePad(includeHeader, line, k - 1, SerializeText(line.fields[k]),
                       writeLineHeader(doc, k - 1))
     ELSE <<>>]

\* WriteLine on an existing line: the rendered bytes; the document is not assigned
writeLineRendered(doc, line, includeHeader) ==
  [doc |-> doc, err |-> NoError,
   buf |-> IF includeHeader
           THEN Join(writeLineHeaders(doc, line, includeHeader), doc.padding)
                  \o <<"\n">> \o Join(writeLineData(doc, line, includeHeader), doc.padding)
           ELSE Join(writeLineData(doc, line, includeHeader), doc.padding)]

\* WriteLine that moves the write cursor to the line it rendered
writeLineChecked_movesCursor(doc, n, includeHeader) ==
  [writeLineRendered(doc, doc.lines[n], includeHeader)
     EXCEPT !.doc = [doc EXCEPT !.startedWriting = TRUE, !.currentWriteLine = n]]

\* WriteLine on a line number that exists
writeLineChecked(doc, n, includeHeader) ==
  IF ~LineExists(doc, doc.headerLine) /\ includeHeader
  THEN [doc |-> doc, buf |-> <<>>, err |-> Sentinel("ErrLineNotFound")]
  ELSE IF Len(doc.lines[n].fields) > doc.lines[n].fieldCount
  THEN [doc |-> doc, buf |-> <<>>, err |-> Sentinel("panic")]
  ELSE writeLineRendered(doc, doc.lines[n], includeHeader)

\* Document.WriteLine(n, includeHeader) -> [doc, buf, err]
WriteLine(doc, n, includeHeader) ==
  IF n > Len(doc.lines) \/ n < 1
  THEN [doc |-> doc, buf |-> <<>>, err |-> Sentinel("ErrLineNotFound")]
  ELSE writeLineChecked(doc, n, includeHeader)

\* the loop of Document.AppendValues over vals, from the 1-based index i on;
\* a "-" is appended as a null and then, as the loop goes on, as a value
RECURSIVE appendValuesLoop(_, _, _, _)
appendValuesValue(out, ln, vals, i) ==
  IF out.err.kind # "nil" THEN out ELSE appendValuesLoop(out.doc, ln, vals, i + 1)

appendValuesNull(out, ln, vals, i) ==
  IF out.err.kind # "nil" THEN out
  ELSE appendValuesValue(AppendTo(out.doc, ln, vals[i]), ln, vals, i)

appendValuesLoop(doc, ln, vals, i) ==
  IF i > Len(vals) THEN [doc |-> doc, err |-> NoError]
  ELSE IF vals[i] = <<"-">>
  THEN appendValuesNull(AppendNullTo(doc, ln), ln, vals, i)
  ELSE appendValuesValue(AppendTo(doc, ln, vals[i]), ln, vals, i)

appendValuesAdded(added, vals) ==
  IF added.err.kind # "nil" THEN added
  ELSE appendValuesLoop(added.doc, Len(added.doc.lines), vals, 1)

\* Document.AppendValues(vals...) -> [doc, err]
AppendValues(doc, vals) == appendValuesAdded(AddLine(doc), vals)

\* document.Field(val) and document.Null()
appendLineField(val, isNull) == [val |-> val, isNull |-> isNull]

\* the loop of Document.AppendLine over fields, from the 1-based index i on
RECURSIVE appendLineLoop(_, _, _, _)
appendLineNext(out, ln, fields, i) ==
  IF out.err.kind # "nil" THEN out ELSE appendLineLoop(out.doc, ln, fields, i + 1)

appendLineLoop(doc, ln, fields, i) ==
  IF i > Len(fields) THEN [doc |-> doc, err |-> NoError]
  ELSE IF fields[i].isNull
  THEN appendLineNext(AppendNullTo(doc, ln), ln, fields, i)
  ELSE appendLineNext(AppendTo(doc, ln, fields[i].val), ln, fields, i)

appendLineAdded(added, fields) ==
  IF added.err.kind # "nil" THEN added
  ELSE appendLineLoop(added.doc, Len(added.doc.lines), fields, 1)

\* Document.AppendLine(fields...) -> [doc, err]
AppendLine(doc, fields) == appendLineAdded(AddLine(doc), fields)

(***************************************************************************)
(* Sorting: internal.SortOption, Document.SortBy and its comparators       *)
(***************************************************************************)
\* the digits, the upper case and the lower case letters in the order of their
\* bytes
ByteDigits == <<"0", "1", "2", "3", "4", "5", "6", "7", "8", "9">>

ByteUpper ==
  <<"A", "B", "C", "D", "E", "F", "G", "H", "I", "J", "K", "L", "M", "N", "O",
    "P", "Q", "R", "S", "T", "U", "V", "W", "X", "Y", "Z">>

ByteLower ==
  <<"a", "b", "c", "d", "e", "f", "g", "h", "i", "j", "k", "l", "m", "n", "o",
    "p", "q", "r", "s", "t", "u", "v", "w", "x", "y", "z">>

\* the 1-based index of c in table
IndexIn(table, c) == CHOOSE i \in 1..Len(table) : table[i] = c

\* the byte value of a character: '-' is 45, '0' is 48, 'A' is 65, 'a' is 97
ByteOf(c) ==
  IF c = "-" THEN 45
  ELSE IF \E i \in 1..Len(ByteDigits) : ByteDigits[i] = c THEN 47 + IndexIn(ByteDigits, c)
  ELSE IF \E i \in 1..Len(ByteUpper) : ByteUpper[i] = c THEN 64 + IndexIn(ByteUpper, c)
  ELSE 96 + IndexIn(ByteLower, c)

\* the comparison of two Go strings, byte by byte from the 1-based index i:
\* -1 for a < b, 0 for a = b, +1 for a > b
RECURSIVE CompareStrings(_, _, _)
CompareStrings(a, b, i) ==
  IF i > Len(a) /\ i > Len(b) THEN 0
  ELSE IF i > Len(a) THEN -1
  ELSE IF i > Len(b) THEN 1
  ELSE IF ByteOf(a[i]) < ByteOf(b[i]) THEN -1
  ELSE IF ByteOf(a[i]) > ByteOf(b[i]) THEN 1
  ELSE CompareStrings(a, b, i + 1)

\* internal.PtrSize on a 64-bit build: the size of a pointer in bytes, which
\* sortNumbersColumn hands to strconv.ParseInt as the bit size
PtrSize == 8

\* 2^n
RECURSIVE Pow2(_)
Pow2(n) == IF n = 0 THEN 1 ELSE 2 * Pow2(n - 1)

\* the value of a digit of strconv.ParseUint; 36 for a byte that is no digit
DigitValue(c) ==
  IF ByteOf(c) >= 48 /\ ByteOf(c) <= 57 THEN ByteOf(c) - 48
  ELSE IF ByteOf(c) >= 97 /\ ByteOf(c) <= 122 THEN ByteOf(c) - 97 + 10
  ELSE IF ByteOf(c) >= 65 /\ ByteOf(c) <= 90 THEN ByteOf(c) - 65 + 10
  ELSE 36

\* the digit loop of strconv.ParseUint from the 1-based index i on
RECURSIVE parseUintLoop(_, _, _, _)
parseUintLoop(s, base, i, n) ==
  IF i > Len(s) THEN [val |-> n, err |-> "nil"]
  ELSE IF DigitValue(s[i]) >= base THEN [val |-> 0, err |-> "syntax"]
  ELSE parseUintLoop(s, base, i + 1, n * base + DigitValue(s[i]))

\* strconv.ParseUint for a base from 2 to 36
ParseUint(s, base) ==
  IF Len(s) = 0 THEN [val |-> 0, err |-> "syntax"] ELSE parseUintLoop(s, base, 1, 0)

\* the range test of strconv.ParseInt on the magnitude un
parseIntRange(un, neg, cutoff) ==
  IF un.err = "syntax" THEN un
  ELSE IF ~neg /\ un.val >= cutoff THEN [val |-> cutoff - 1, err |-> "range"]
  ELSE IF neg /\ un.val > cutoff THEN [val |-> 0 - cutoff, err |-> "range"]
  ELSE IF neg THEN [val |-> 0 - un.val, err |-> "nil"]
  ELSE un

\* strconv.ParseInt(s, base, bitSize) -> [val, err]
ParseInt(s, base, bitSize) ==
  IF Len(s) = 0 THEN [val |-> 0, err |-> "syntax"]
  ELSE IF s[1] = "+" THEN parseIntRange(ParseUint(Tail(s), base), FALSE, Pow2(bitSize - 1))
  ELSE IF s[1] = "-" THEN parseIntRange(ParseUint(Tail(s), base), TRUE, Pow2(bitSize - 1))
  ELSE parseIntRange(ParseUint(s, base), FALSE, Pow2(bitSize - 1))

\* internal.SortOption behind its pointer
SortOption(fieldName, desc, asNumber, numberRadix, asTime, timeFormat) ==
  [nil |-> FALSE, FieldName |-> fieldName, Desc |-> desc, AsNumber |-> asNumber,
   NumberRadix |-> numberRadix, AsTime |-> asTime, TimeFormat |-> timeFormat]

\* a nil *internal.SortOption
NilOption ==
  [nil |-> TRUE, FieldName |-> <<>>, Desc |-> FALSE, AsNumber |-> FALSE,
   NumberRadix |-> 0, AsTime |-> FALSE, TimeFormat |-> <<>>]

Sort(fieldName) == SortOption(fieldName, FALSE, FALSE, 0, FALSE, <<>>)

SortDesc(fieldName) == SortOption(fieldName, TRUE, FALSE, 0, FALSE, <<>>)

SortNumber(fieldName) == SortOption(fieldName, FALSE, TRUE, 10, FALSE, <<>>)

SortNumberDesc(fieldName) == SortOption(fieldName, TRUE, TRUE, 10, FALSE, <<>>)

SortNumberBase(fieldName, base) == SortOption(fieldName, FALSE, TRUE, base, FALSE, <<>>)

SortNumberBaseDesc(fieldName, base) == SortOption(fieldName, TRUE, TRUE, base, FALSE, <<>>)

SortTime(fieldName, format) == SortOption(fieldName, FALSE, FALSE, 0, TRUE, format)

SortTimeDesc(fieldName, format) == SortOption(fieldName, TRUE, FALSE, 0, TRUE, format)

\* the layout of a year of four digits, the one time layout the options drawn use
LongYear == <<"2", "0", "0", "6">>

IsDigit(c) == \E i \in 1..Len(ByteDigits) : ByteDigits[i] = c

\* time.Parse(LongYear, value) -> [val, err]: the value is four digits and
\* nothing else, and the time is the start of that year
timeParse(layout, value) ==
  IF Len(value) < 4 \/ ~IsDigit(value[1]) THEN [val |-> 0, err |-> "parse"]
  ELSE IF \E i \in 2..4 : ~IsDigit(value[i]) THEN [val |-> 0, err |-> "parse"]
  ELSE IF Len(value) > 4 THEN [val |-> 0, err |-> "extra text"]
  ELSE [val |-> parseUintLoop(value, 10, 1, 0).val, err |-> "nil"]

\* time1.Compare(time2)
timeCompare(time1, time2) ==
  IF time1.val < time2.val THEN -1 ELSE IF time1.val > time2.val THEN 1 ELSE 0

\* the comparison of two parsed times in sortTimeColumn
compareTimes(time1, time2) ==
  IF time1.err # "nil" THEN 1
  ELSE IF time2.err # "nil" THEN -1
  ELSE timeCompare(time1, time2)

\* sortTimeColumn
sortTimeColumn(opt, a, b) ==
  IF a.IsNull THEN 1
  ELSE IF b.IsNull THEN -1
  ELSE compareTimes(timeParse(opt.TimeFormat, a.Value), timeParse(opt.TimeFormat, b.Value))

\* the comparison of two parsed numbers in sortNumbersColumn: the error of the
\* second ParseInt is not looked at
compareNumbers(number1, number2) ==
  IF number1.err # "nil" THEN 1
  ELSE IF number1.val < number2.val THEN -1
  ELSE IF number1.val > number2.val THEN 1
  ELSE 0

\* sortNumbersColumn
sortNumbersColumn(opt, a, b) ==
  IF a.IsNull THEN 1
  ELSE IF b.IsNull THEN -1
  ELSE compareNumbers(ParseInt(a.Value, opt.NumberRadix, PtrSize),
                      ParseInt(b.Value, opt.NumberRadix, PtrSize))

\* the direction applied to an order
directed(opt, order) == IF opt.Desc THEN order * (-1) ELSE order

\* sortFieldsColumn
sortFieldsColumn(opt, a, b) ==
  IF opt.AsTime THEN directed(opt, sortTimeColumn(opt, a, b))
  ELSE IF opt.AsNumber THEN directed(opt, sortNumbersColumn(opt, a, b))
  ELSE IF a.IsNull THEN 1
  ELSE IF b.IsNull THEN -1
  ELSE directed(opt, CompareStrings(a.Value, b.Value, 1))

\* documentLine.FieldByName found a field
HasFieldByName(line, name) ==
  \E i \in 1..Len(line.fields) : line.fields[i].FieldName = name

\* documentLine.FieldByName: the first field of that name
FieldByName(line, name) ==
  line.fields[CHOOSE i \in 1..Len(line.fields) :
                /\ line.fields[i].FieldName = name
                /\ \A k \in 1..(i - 1) : line.fields[k].FieldName # name]

\* the comparison function with a line that lacks the field put first
lineCompare_missingFirst(doc, sort, cur, next) ==
  IF IsHeader(doc, cur) THEN -1
  ELSE IF IsHeader(doc, next) THEN 1
  ELSE IF ~HasFieldByName(cur, sort.FieldName) THEN -1
  ELSE IF ~HasFieldByName(next, sort.FieldName) THEN 1
  ELSE 0

\* the comparison function SortBy hands to slices.SortStableFunc
lineCompare(doc, sort, cur, next) ==
  IF IsHeader(doc, cur) THEN -1
  ELSE IF IsHeader(doc, next) THEN 1
  ELSE IF ~HasFieldByName(cur, sort.FieldName) THEN 1
  ELSE IF ~HasFieldByName(next, sort.FieldName) THEN -1
  ELSE sortFieldsColumn(sort, FieldByName(cur, sort.FieldName),
                        FieldByName(next, sort.FieldName))

\* data[j], data[j-1] = data[j-1], data[j]
swapLines(data, j) == [data EXCEPT ![j] = data[j - 1], ![j - 1] = data[j]]

\* slices.SortStableFunc on fewer than 20 elements is an insertion sort: the
\* element at j moves down while the comparison puts it before its predecessor
RECURSIVE insertLine(_, _, _, _)
insertLine(doc, sort, data, j) ==
  IF j > 1 /\ lineCompare(doc, sort, data[j], data[j - 1]) < 0
  THEN insertLine(doc, sort, swapLines(data, j), j - 1)
  ELSE data

RECURSIVE insertionSort(_, _, _, _)
insertionSort(doc, sort, data, i) ==
  IF i > Len(data) THEN data
  ELSE insertionSort(doc, sort, insertLine(doc, sort, data, i), i + 1)

SortStableFunc(doc, sort, data) == insertionSort(doc, sort, data, 2)

\* the option of the k-th pass read in the reverse order
passOption_reversed(sortOptions, k) == sortOptions[Len(sortOptions) + 1 - k]

\* the option of the k-th pass of the loop of SortBy
passOption(sortOptions, k) == sortOptions[k]

\* the loop of SortBy over the options from the k-th on: one stable sort of the
\* lines for every option that is not nil
RECURSIVE sortPasses(_, _, _, _)
sortPasses(doc, sortOptions, data, k) ==
  IF k > Len(sortOptions) THEN data
  ELSE IF passOption(sortOptions, k).nil
  THEN sortPasses(doc, sortOptions, data, k + 1)
  ELSE sortPasses(doc, sortOptions,
                  SortStableFunc(doc, passOption(sortOptions, k), data), k + 1)

\* Document.ReIndexLineNumbers
ReIndexLineNumbers(doc) ==
  [doc EXCEPT !.lines = [i \in 1..Len(doc.lines) |-> [doc.lines[i] EXCEPT !.line = i]]]

\* Document.SortBy(sortOptions...) -> [doc, err]
SortBy(doc, sortOptions) ==
  IF ~doc.Tabular
  THEN [doc |-> doc, err |-> Sentinel("ErrCannotSortNonTabularDocument")]
  ELSE IF Len(sortOptions) = 0 THEN [doc |-> doc, err |-> NoError]
  ELSE [doc |-> ReIndexLineNumbers(
                  [doc EXCEPT !.lines = sortPasses(doc, sortOptions, doc.lines, 1)]),
        err |-> NoError]

\* the loop of ToDocument over the fields of a line read: errors of Append and
\* AppendNull are dropped
RECURSIVE appendFields(_, _, _, _)
appendFields(doc, ln, rl, i) ==
  IF i >= rl.fieldCount THEN doc
  ELSE appendFields(IF rl.fields[i + 1].IsNull THEN AppendNullTo(doc, ln).doc
                    ELSE AppendTo(doc, ln, rl.fields[i + 1].Value).doc,
                    ln, rl, i + 1)

\* Reader.ToDocument -> [r, doc, err]
RECURSIVE toDocumentLoop(_, _)
\* the line read goes into the line added: its comment, then its fields
toDocumentLine(rd, added) ==
  appendFields(IF rd.line.comment # <<>>
               THEN UpdateComment(added.doc, Len(added.doc.lines), rd.line.comment)
               ELSE added.doc,
               Len(added.doc.lines), rd.line, 0)

toDocumentAdd(rd, doc, added) ==
  IF added.err.kind # "nil" THEN [r |-> rd.r, doc |-> doc, err |-> added.err]
  ELSE toDocumentLoop(rd.r, toDocumentLine(rd, added))

toDocumentStep(rd, doc) ==
  IF rd.err.kind = "EOF" THEN [r |-> rd.r, doc |-> doc, err |-> NoError]
  ELSE IF rd.err.kind # "nil" THEN [r |-> rd.r, doc |-> doc, err |-> rd.err]
  ELSE toDocumentAdd(rd, doc, AddLine(doc))

toDocumentLoop(r, doc) == toDocumentStep(Read(r), doc)

ToDocument(r) == toDocumentLoop(r, NewDocument)

(***************************************************************************)
(* State                                                                   *)
(*   r    a reader.Reader (with the byte stream it reads)                  *)
(*   doc  a document.Document                                              *)
(*   res  what the last call returned                                      *)
(*   obs  what an observer of the calls has recorded so far                *)
(*   pc   the position of the driving program                              *)
(***************************************************************************)
VARIABLES r, doc, res, obs, pc

vars == <<r, doc, res, obs, pc>>

NoResult == [op |-> "none", buf |-> <<>>, err |-> NoError]

\* all byte strings over alphabet of length at most n
Strings(alphabet, n) == UNION {[1..k -> alphabet] : k \in 0..n}

(***************************************************************************)
(* Round trip: bytes -> Reader.ToDocument -> Document.WriteAll -> bytes    *)
(* -> Reader.ToDocument                                                    *)
(***************************************************************************)
RTAlphabet == {"a", DQ, "-", " ", "/", "#"}

\* one raw line, read as the header line, or the same line twice (header and data)
RTInputs ==
  {l : l \in Strings(RTAlphabet, MaxLineLen)}
    \cup {l \o <<"\n">> \o l : l \in Strings(RTAlphabet, MaxLineLen)}

RTInit ==
  /\ r \in {NewReader(input) : input \in RTInputs}
  /\ doc = NewDocument
  /\ res = NoResult
  /\ obs = [written |-> <<>>, writeErr |-> NoError, second |-> NewDocument,
            secondErr |-> NoError]
  /\ pc = "start"

RTParse ==
  /\ pc = "start"
  /\ LET t == ToDocument(r)
     IN /\ r' = t.r
        /\ doc' = t.doc
        /\ res' = [op |-> "ToDocument", buf |-> <<>>, err |-> t.err]
  /\ pc' = "parsed"
  /\ UNCHANGED obs

RTWrite ==
  /\ pc = "parsed"
  /\ res.err.kind = "nil"
  /\ LET w == WriteAll(doc)
     IN /\ doc' = w.doc
        /\ res' = [op |-> "WriteAll", buf |-> w.buf, err |-> w.err]
        /\ obs' = [obs EXCEPT !.written = w.buf, !.writeErr = w.err]
  /\ pc' = "written"
  /\ UNCHANGED r

RTReparse ==
  /\ pc = "written"
  /\ LET t == ToDocument(NewReader(obs.written))
     IN /\ r' = t.r
        /\ res' = [op |-> "ToDocument", buf |-> <<>>, err |-> t.err]
        /\ obs' = [obs EXCEPT !.second = t.doc, !.secondErr = t.err]
  /\ pc' = "reparsed"
  /\ UNCHANGED doc

RTNext == RTParse \/ RTWrite \/ RTReparse

SpecRoundTrip == RTInit /\ [][RTNext]_vars

\* the values, null flags and comments of a document, line by line
Content(d) ==
  [k \in 1..Len(d.lines) |->
     [comment |-> d.lines[k].comment,
      fields |-> [j \in 1..Len(d.lines[k].fields) |->
                    [Value |-> d.lines[k].fields[j].Value,
                     IsNull |-> d.lines[k].fields[j].IsNull]]]]

\* C1: round trip. Serializing a parsed document and parsing the output again
\* succeeds and yields, line by line and field by field, the same values, null
\* flags and comments, for every field value.
C1_RoundTrip ==
  pc = "reparsed" =>
    /\ obs.writeErr.kind = "nil"
    /\ obs.secondErr.kind = "nil"
    /\ Content(obs.second) = Content(doc)

(***************************************************************************)
(* Reader: repeated calls of Reader.Read on one input                      *)
(***************************************************************************)
\* the raw lines an input is assembled from: an empty line, a comment-only line,
\* three fields, two fields, four fields, a comment after one field, a comment
\* after three fields, and a line with an unterminated quote
ReaderLines ==
  { <<>>,
    <<"#", "c">>,
    <<"A", " ", "B", " ", "C">>,
    <<"1", " ", "2">>,
    <<"1", " ", "2", " ", "3", " ", "4">>,
    <<"1", " ", "#", "c", " ", "2">>,
    <<"1", " ", "2", " ", "3", " ", "#", "c">>,
    <<DQ, "x">> }

\* how the lines of an input are terminated: LF between lines only, or CR LF
\* after every line
Endings == {"none", "CRLF"}

Terminator(e) == IF e = "CRLF" THEN <<"\r", "\n">> ELSE <<"\n">>

RECURSIVE JoinLines(_, _)
JoinLines(ls, e) ==
  IF Len(ls) = 0 THEN <<>>
  ELSE IF Len(ls) = 1 THEN ls[1] \o (IF e = "none" THEN <<>> ELSE Terminator(e))
  ELSE ls[1] \o Terminator(e) \o JoinLines(Tail(ls), e)

ReaderInputs ==
  {JoinLines(ls, e) : ls \in Strings(ReaderLines, MaxInputLines), e \in Endings}

\* the number of physical lines of an input: every LF ends one, and so does the
\* end of the input after bytes that follow the last LF
PhysicalLines(input) ==
  Cardinality({k \in 1..Len(input) : input[k] = "\n"})
    + (IF Len(input) > 0 /\ input[Len(input)] # "\n" THEN 1 ELSE 0)

ReaderInit ==
  /\ r \in {Reader(input, t, h, n) : input \in ReaderInputs, t \in BOOLEAN,
                                     h \in BOOLEAN, n \in BOOLEAN}
  /\ doc = NewDocument
  /\ res = NoResult
  /\ obs = [log |-> <<>>]
  /\ pc = "reader"

\* one call of Read; the log keeps, per call, the raw line the call consumed and
\* its tokens, the header state before and after, and what the call returned
ReaderRead ==
  /\ pc = "reader"
  /\ Len(obs.log) < PhysicalLines(r.input) + ExtraReads
  /\ LET out == Read(r)
         rl == readLine(r)
         got == ~r.ended /\ rl.err.kind = "nil"
     IN /\ r' = out.r
        /\ res' = [op |-> "Read", buf |-> <<>>, err |-> out.err]
        /\ obs' = [obs EXCEPT !.log = Append(@,
                     [raw |-> IF got THEN rl.line ELSE <<>>,
                      gotLine |-> got,
                      tokens |-> IF got THEN parseLine(1, rl.line).fields ELSE <<>>,
                      tokenizes |-> got /\ parseLine(1, rl.line).err.kind = "nil",
                      before |-> r.headers,
                      firstBefore |-> r.firstDataRow,
                      after |-> out.r.headers,
                      line |-> out.line,
                      isNil |-> out.isNil,
                      err |-> out.err])]
  /\ UNCHANGED <<doc, pc>>

ReaderNext == ReaderRead

SpecReader == ReaderInit /\ [][ReaderNext]_vars

\* ---- what the log says about one call e
\* the tokens of the raw line the call consumed
Tokens(e) == e.tokens
Tokenizes(e) == e.tokenizes
DataTokens(e) == SelectSeq(Tokens(e), LAMBDA t : ~t.IsComment)
HasComment(e) == \E k \in 1..Len(Tokens(e)) : Tokens(e)[k].IsComment
\* the number of tokens in front of the comment token
CommentIndex(e) == (CHOOSE k \in 1..Len(Tokens(e)) : Tokens(e)[k].IsComment) - 1
CommentValue(e) == Tokens(e)[CommentIndex(e) + 1].Value
TokenValue(t) == IF t.IsNull THEN <<>> ELSE t.Value
\* the header row was read by an earlier call
HeaderKnown(e) == e.firstBefore # 0 /\ Len(e.before) > 0
LogIndex == 1..Len(obs.log)

\* C2: reader exhaustion. Over an input of N physical lines the first N calls of
\* Read return neither the end-of-input sentinel nor the reader-ended error, call
\* N+1 returns io.EOF with a line without fields, and every later call returns
\* ErrReaderEnded and no line.
C2_ReaderExhaustion ==
  pc = "reader" =>
    LET N == PhysicalLines(r.input)
    IN \A k \in LogIndex :
         LET e == obs.log[k]
         IN /\ k <= N => e.err.kind \notin {"EOF", "ErrReaderEnded"} /\ ~e.isNil
            /\ k = N + 1 => e.err.kind = "EOF" /\ ~e.isNil /\ e.line.fields = <<>>
            /\ k > N + 1 => e.err.kind = "ErrReaderEnded" /\ e.isNil

\* an input of at least two lines read to its end and once more
C2_Witness ==
  /\ pc = "reader"
  /\ PhysicalLines(r.input) >= 2
  /\ Len(obs.log) = PhysicalLines(r.input) + 2
  /\ obs.log[Len(obs.log) - 1].err.kind = "EOF"
  /\ obs.log[Len(obs.log)].err.kind = "ErrReaderEnded"

\* the values of the data tokens of the raw line of call e
DataValues(e) == [j \in 1..Len(DataTokens(e)) |-> TokenValue(DataTokens(e)[j])]
\* tabular mode with headers, the header row read by an earlier call, and a raw
\* line that tokenizes
TabularDataCall(e) ==
  r.IsTabular /\ r.IncludesHeader /\ HeaderKnown(e) /\ Tokenizes(e)

\* the first part of C5: a line with fields returned without an error has as
\* many fields as there are headers
ShapeOfReturnedLines ==
  \A k \in LogIndex :
    LET e == obs.log[k]
    IN e.err.kind = "nil" /\ Len(e.line.fields) > 0 =>
         /\ Len(e.line.fields) = Len(e.after)
         /\ e.line.fieldCount = Len(e.after)

\* the second part of C5: more data fields than headers is an over-count error
\* carrying more raw values than there are headers
OverCountReported ==
  \A k \in LogIndex :
    LET e == obs.log[k]
    IN TabularDataCall(e) /\ Len(DataTokens(e)) > Len(e.before) =>
         /\ e.err.kind = "InvalidFieldCountError"
         /\ e.err.Headers = e.before
         /\ Len(e.err.Fields) > Len(e.err.Headers)

\* C5 (as stated): with tabular mode and headers enabled every non-empty data line
\* returned without an error has as many fields as the header line, a line with
\* more fields is returned with an over-count error, and a line with fewer fields,
\* padding disabled, with an under-count error.
C5_AsStated ==
  pc = "reader" /\ r.IsTabular /\ r.IncludesHeader =>
    /\ ShapeOfReturnedLines
    /\ OverCountReported
    /\ \A k \in LogIndex :
         LET e == obs.log[k]
         IN /\ TabularDataCall(e)
            /\ ~r.NullTrailingColumns
            /\ Len(DataTokens(e)) >= 1
            /\ Len(DataTokens(e)) < Len(e.before)
            => /\ e.err.kind = "InvalidFieldCountError"
               /\ Len(e.err.Fields) < Len(e.err.Headers)

\* C5: tabular shape on the read path. With tabular mode and headers enabled every
\* line with fields that Read returns without an error has as many fields as
\* there are headers; a line with more data fields than headers is returned with
\* an over-count error; a line with fewer (but at least one) data fields, padding
\* disabled, is returned with an under-count error when it carries no comment and
\* with a comment placement error when it carries one.
C5_TabularShape ==
  pc = "reader" /\ r.IsTabular /\ r.IncludesHeader =>
    /\ ShapeOfReturnedLines
    /\ OverCountReported
    /\ \A k \in LogIndex :
         LET e == obs.log[k]
         IN /\ TabularDataCall(e)
            /\ ~r.NullTrailingColumns
            /\ Len(DataTokens(e)) >= 1
            /\ Len(DataTokens(e)) < Len(e.before)
            => IF HasComment(e)
               THEN e.err.kind = "ErrCommentPlacement"
               ELSE /\ e.err.kind = "InvalidFieldCountError"
                    /\ e.err.Fields = [j \in 1..Len(DataValues(e)) |->
                                         SerializeValue(DataValues(e)[j])]
                    /\ e.err.Headers = e.before
                    /\ Len(e.err.Fields) < Len(e.err.Headers)

\* a header of three columns followed by a row of two fields, rejected as too
\* short, and a row of four fields, rejected as too long
C5_Witness ==
  /\ pc = "reader" /\ r.IsTabular /\ r.IncludesHeader /\ ~r.NullTrailingColumns
  /\ Len(obs.log) >= 3
  /\ obs.log[1].err.kind = "nil" /\ Len(obs.log[1].line.fields) = 3
  /\ obs.log[2].raw = <<"1", " ", "2">>
  /\ obs.log[2].err.kind = "InvalidFieldCountError"
  /\ Len(obs.log[2].err.Fields) = 2
  /\ obs.log[3].raw = <<"1", " ", "2", " ", "3", " ", "4">>
  /\ obs.log[3].err.kind = "InvalidFieldCountError"
  /\ Len(obs.log[3].err.Fields) = 4

\* the fields of a padded line: the values of the k data tokens, then nulls with
\* empty value under the header names of their columns
PaddedFields(e) ==
  /\ Len(e.line.fields) = Len(e.before)
  /\ e.line.fieldCount = Len(e.before)
  /\ \A j \in 1..Len(e.before) :
       LET f == e.line.fields[j]
       IN /\ f.FieldIndex = j - 1
          /\ f.FieldName = e.before[j]
          /\ ~f.IsHeader
          /\ IF j <= Len(DataTokens(e))
             THEN f.Value = DataValues(e)[j] /\ f.IsNull = DataTokens(e)[j].IsNull
             ELSE f.Value = <<>> /\ f.IsNull

\* tabular mode with headers and padding, and a raw line with at least one and
\* fewer than h data fields
ShortLineToPad(e) ==
  /\ r.NullTrailingColumns
  /\ TabularDataCall(e)
  /\ Len(DataTokens(e)) >= 1
  /\ Len(DataTokens(e)) < Len(e.before)

\* C6 (as stated): with headers and padding enabled a data line with k < h fields
\* is returned without error as a line of h fields whose fields k..h-1 are null,
\* empty and named after their column.
C6_AsStated ==
  pc = "reader" =>
    \A k \in LogIndex :
      ShortLineToPad(obs.log[k]) =>
        obs.log[k].err.kind = "nil" /\ PaddedFields(obs.log[k])

\* C6: trailing null padding. In tabular mode with headers and padding enabled a
\* data line with k fields, 1 <= k < h, that carries no comment is returned
\* without error as a line of h fields: its own k values, then null fields with
\* empty value that carry the header name of their column. The same line with a
\* comment is returned with a comment placement error and is not padded.
C6_TrailingNullPadding ==
  pc = "reader" =>
    \A k \in LogIndex :
      LET e == obs.log[k]
      IN ShortLineToPad(e) =>
           IF HasComment(e)
           THEN /\ e.err.kind = "ErrCommentPlacement"
                /\ Len(e.line.fields) = Len(DataTokens(e))
           ELSE e.err.kind = "nil" /\ PaddedFields(e)

\* header A B C, then the row `1 2` read as {1, 2, null}, the null named C
C6_Witness ==
  /\ pc = "reader" /\ r.IsTabular /\ r.IncludesHeader /\ r.NullTrailingColumns
  /\ Len(obs.log) >= 2
  /\ obs.log[1].after = << <<"A">>, <<"B">>, <<"C">> >>
  /\ obs.log[2].raw = <<"1", " ", "2">>
  /\ obs.log[2].err.kind = "nil"
  /\ Len(obs.log[2].line.fields) = 3
  /\ obs.log[2].line.fields[1].Value = <<"1">>
  /\ obs.log[2].line.fields[2].Value = <<"2">>
  /\ obs.log[2].line.fields[3].IsNull
  /\ obs.log[2].line.fields[3].FieldName = <<"C">>

\* C7: comment placement. In tabular mode, on a line that tokenizes with a comment
\* token after i data fields and with h header names: Read returns a comment
\* placement error when 0 < i < h; Read returns no error only when i = 0 or
\* i >= h; and the comment-only line (i = 0) and the line whose comment follows
\* exactly h fields are returned without error and carry the comment.
C7_CommentPlacement ==
  pc = "reader" /\ r.IsTabular =>
    \A k \in LogIndex :
      LET e == obs.log[k]
          i == CommentIndex(e)
          h == Len(e.after)
      IN Tokenizes(e) /\ HasComment(e) =>
           /\ (0 < i /\ i < h) => e.err.kind = "ErrCommentPlacement"
           /\ e.err.kind = "nil" => (i = 0 \/ i >= h)
           /\ (i = 0 \/ i = h) => e.err.kind = "nil" /\ e.line.comment = CommentValue(e)
           /\ e.err.kind = "ErrCommentPlacement" => e.line.comment = <<>>

\* with the three headers A B C, `1 #c 2` is a placement error and `1 2 3 #c`
\* succeeds with comment c
C7_Witness ==
  /\ pc = "reader" /\ r.IsTabular /\ r.IncludesHeader
  /\ \E j, k \in LogIndex :
       /\ Len(obs.log[j].before) = 3
       /\ obs.log[j].raw = <<"1", " ", "#", "c", " ", "2">>
       /\ obs.log[j].err.kind = "ErrCommentPlacement"
       /\ Len(obs.log[k].before) = 3
       /\ obs.log[k].raw = <<"1", " ", "2", " ", "3", " ", "#", "c">>
       /\ obs.log[k].err.kind = "nil"
       /\ obs.log[k].line.comment = <<"c">>
       /\ Len(obs.log[k].line.fields) = 3

\* the first byte of a raw line that is no field delimiter, Nil when there is none
FirstByte(raw) ==
  IF \E k \in 1..Len(raw) : ~IsFieldDelimiter(raw[k])
  THEN raw[CHOOSE k \in 1..Len(raw) :
             ~IsFieldDelimiter(raw[k]) /\ \A j \in 1..(k - 1) : IsFieldDelimiter(raw[j])]
  ELSE Nil

\* the call consumed a row that is neither empty nor comment-only
NeitherEmptyNorComment(e) == e.gotLine /\ FirstByte(e.raw) \notin {Nil, "#"}

\* the line the call returned is marked as header
MarkedHeader(e) == ~e.isNil /\ e.line.isHeaderLine

DocValues == {<<"a">>, <<"b", "b">>}

DocComments == {<<"c">>}

NoPass == [calls |-> 0, ok |-> 0, bytes |-> <<>>]

DocInit ==
  /\ r = NewReader(<<>>)
  /\ doc = NewDocument
  /\ res = [op |-> "none", buf |-> <<>>, err |-> NoError, wroteBefore |-> FALSE,
            writingBefore |-> FALSE, linesKept |-> TRUE, callNo |-> 0,
            pastEnd |-> FALSE, cursorBefore |-> 0, mutatedBefore |-> FALSE]
  /\ obs = [wrote |-> FALSE, writing |-> FALSE, calls |-> 0, ok |-> 0,
            bytes |-> <<>>, mutated |-> FALSE, prev |-> NoPass, resets |-> 0,
            widest |-> <<>>]
  /\ pc = "document"

\* what every call records of itself: its outcome out = [doc, err] with the bytes
\* buf it returned, and what held before it
DocCall(op, out, buf) ==
  /\ pc = "document"
  /\ doc' = out.doc
  /\ res' = [op |-> op, buf |-> buf, err |-> out.err, wroteBefore |-> obs.wrote,
             writingBefore |-> obs.writing, linesKept |-> out.doc.lines = doc.lines,
             callNo |-> obs.calls + 1,
             pastEnd |-> doc.currentWriteLine >= Len(doc.lines),
             cursorBefore |-> doc.currentWriteLine,
             mutatedBefore |-> obs.mutated]
  /\ UNCHANGED <<r, pc>>

\* the greatest rendered width of a field in column c (1-based) of the lines, or
\* least if no line is wider
WidestIn(lines, c, least) ==
  IF \A k \in 1..Len(lines) :
       Len(lines[k].fields) >= c => Len(SerializeText(lines[k].fields[c])) <= least
  THEN least
  ELSE CHOOSE w \in 1..(2 * MaxLineLen + 2) :
         /\ \E k \in 1..Len(lines) :
              Len(lines[k].fields) >= c /\ Len(SerializeText(lines[k].fields[c])) = w
         /\ \A k \in 1..Len(lines) :
              Len(lines[k].fields) >= c => Len(SerializeText(lines[k].fields[c])) <= w

\* the number of columns of the lines, at least n
Columns(lines, n) ==
  IF \E k \in 1..Len(lines) : Len(lines[k].fields) > n
  THEN CHOOSE m \in 1..(MaxAppends + 2) :
         /\ \E k \in 1..Len(lines) : Len(lines[k].fields) = m
         /\ \A k \in 1..Len(lines) : Len(lines[k].fields) <= m
  ELSE n

\* obs.widest after the lines have become lines
Widest(widest, lines) ==
  [c \in 1..Columns(lines, Len(widest)) |->
     WidestIn(lines, c, IF c <= Len(widest) THEN widest[c] ELSE 0)]

\* a call that adds or changes lines
DocMutation(op, out) ==
  /\ DocCall(op, out, <<>>)
  /\ obs' = [obs EXCEPT !.mutated = @ \/ out.doc.lines # doc.lines,
                        !.widest = Widest(@, out.doc.lines)]

LastLine == Len(doc.lines)

RoomForLine == doc.startedWriting \/ Len(doc.lines) < MaxDocLines

\* fields and comments are set before the first Write or WriteAll; the last
\* line takes another field, or would refuse it
RoomForField ==
  /\ ~obs.wrote
  /\ Len(doc.lines) > 0
  /\ \/ Len(doc.lines[LastLine].fields) < MaxAppends
     \/ checkFieldIndex(claimHeader(doc, doc.lines[LastLine]), doc.lines[LastLine],
                        Len(doc.lines[LastLine].fields))

DocAddLine == RoomForLine /\ DocMutation("AddLine", AddLine(doc))

DocAppend ==
  /\ RoomForField
  /\ \E val \in DocValues : DocMutation("Append", AppendTo(doc, LastLine, val))

DocAppendNull == RoomForField /\ DocMutation("AppendNull", AppendNullTo(doc, LastLine))

DocUpdateComment ==
  /\ ~obs.wrote
  /\ Len(doc.lines) > 0
  /\ doc.lines[LastLine].comment = <<>>
  /\ \E val \in DocComments :
       DocMutation("UpdateComment",
                   [doc |-> UpdateComment(doc, LastLine, val), err |-> NoError])

\* the argument lists AppendValues is called with
AppendValueLists == {<< <<"a">> >>, << <<"a">>, <<"-">> >>}

DocAppendValues ==
  /\ RoomForLine
  /\ \E vals \in AppendValueLists :
       DocMutation("AppendValues", AppendValues(doc, vals))

DocAppendLine ==
  /\ RoomForLine
  /\ \E fields \in {<< appendLineField(<<"a">>, FALSE) >>,
                    << appendLineField(<<"b", "b">>, FALSE),
                       appendLineField(<<>>, TRUE) >>} :
       DocMutation("AppendLine", AppendLine(doc, fields))

\* Write, or WriteAll with the Write calls it makes: one per line it renders and
\* the one that ends it
DocWriting(op, out, calls) ==
  /\ DocCall(op, out, out.buf)
  /\ obs' = [obs EXCEPT !.wrote = TRUE, !.writing = TRUE,
                        !.calls = @ + calls,
                        !.ok = @ + out.doc.currentWriteLine - doc.currentWriteLine,
                        !.bytes = @ \o out.buf,
                        !.mutated = IF obs.calls = 0 THEN FALSE ELSE @]

DocWrite == obs.calls <= Len(doc.lines) + 1 /\ DocWriting("Write", Write(doc), 1)

DocWriteAllCalls(out) == out.doc.currentWriteLine - doc.currentWriteLine + 1

DocWriteAll ==
  /\ obs.calls <= Len(doc.lines) + 1
  /\ DocWriting("WriteAll", WriteAll(doc), DocWriteAllCalls(WriteAll(doc)))

DocResetWrite ==
  /\ obs.writing
  /\ obs.resets < MaxResets
  /\ DocCall("ResetWrite", [doc |-> ResetWrite(doc), err |-> NoError], <<>>)
  /\ obs' = [obs EXCEPT !.writing = FALSE, !.calls = 0, !.ok = 0, !.bytes = <<>>,
                        !.resets = @ + 1,
                        !.prev = [calls |-> obs.calls, ok |-> obs.ok,
                                  bytes |-> obs.bytes]]

DocNext ==
  \/ DocAddLine
  \/ DocAppend
  \/ DocAppendNull
  \/ DocUpdateComment
  \/ DocAppendValues
  \/ DocAppendLine
  \/ DocWrite
  \/ DocWriteAll
  \/ DocResetWrite

SpecDocument == DocInit /\ [][DocNext]_vars

\* the calls that add a line
AddOps == {"AddLine", "AppendValues", "AppendLine"}

\* C9 (as stated): once Write or WriteAll has been called on a document, AddLine,
\* AppendLine and AppendValues return the started-to-write error and leave the
\* line list unchanged.
C9_AsStated ==
  pc = "document" /\ res.op \in AddOps /\ res.wroteBefore =>
    res.err.kind = "ErrStartedToWrite" /\ res.linesKept

\* C9: AddLine only while no serialization is under way. From the first Write or
\* WriteAll call until ResetWrite is called, AddLine, AppendLine and AppendValues
\* return the started-to-write error and leave the line list unchanged; before the
\* first such call and after ResetWrite they add a line and do not return that
\* error.
C9_AddLineBeforeWriting ==
  pc = "document" /\ res.op \in AddOps =>
    IF res.writingBefore
    THEN res.err.kind = "ErrStartedToWrite" /\ res.linesKept
    ELSE /\ res.err.kind # "ErrStartedToWrite"
         /\ ~res.linesKept
         /\ doc.lines[Len(doc.lines)].line = Len(doc.lines)

\* AddLine refused on a document with lines, one of which has been written
C9_Witness ==
  /\ pc = "document"
  /\ res.op = "AddLine" /\ res.writingBefore
  /\ res.err.kind = "ErrStartedToWrite"
  /\ Len(doc.lines) >= 1 /\ doc.currentWriteLine >= 1

\* the bytes of line k of the document as Write renders it
Rendered(k) == writeLineBytes(doc, doc.lines[k])

\* once the cursor is past the last line Write returns io.EOF and no bytes, and
\* the cursor stays
EndOfLines ==
  res.op = "Write" /\ res.pastEnd =>
    /\ res.err.kind = "EOF"
    /\ res.buf = <<>>
    /\ doc.currentWriteLine = res.cursorBefore

FailsFieldCount(k) ==
  /\ doc.Tabular
  /\ k # 1
  /\ doc.lines[k].fieldCount # 0
  /\ doc.lines[k].fieldCount # Len(doc.headers)

NameColumn == <<"N", "a", "m", "e">>

AgeColumn == <<"A", "g", "e">>

Zak == <<"Z", "a", "k">>

Patrick == <<"P", "a", "t", "r", "i", "c", "k">>

Jane == <<"J", "a", "n", "e">>

Age100 == <<"1", "0", "0">>

Age79 == <<"7", "9">>

\* ages beyond the largest integer of PtrSize bits
Age200 == <<"2", "0", "0">>

Age150 == <<"1", "5", "0">>

\* an age that is no number
AgeUnknown == <<"x">>

\* the data lines appended: the three rows of the example, a row whose age
\* is no number, a row without an age, a row with a null name and two rows of
\* a great age
SortTable ==
  { <<appendLineField(Zak, FALSE), appendLineField(Age100, FALSE)>>,
    <<appendLineField(Patrick, FALSE), appendLineField(Age100, FALSE)>>,
    <<appendLineField(Jane, FALSE), appendLineField(Age79, FALSE)>>,
    <<appendLineField(Patrick, FALSE), appendLineField(AgeUnknown, FALSE)>>,
    <<appendLineField(Patrick, FALSE)>>,
    <<appendLineField(<<>>, TRUE), appendLineField(Age79, FALSE)>>,
    <<appendLineField(Zak, FALSE), appendLineField(Age200, FALSE)>>,
    <<appendLineField(Jane, FALSE), appendLineField(Age150, FALSE)>> }

SortColumns == {NameColumn, AgeColumn}

SortOptions ==
  UNION {{Sort(c), SortDesc(c), SortNumber(c), SortNumberDesc(c)} : c \in SortColumns}

\* the argument lists of SortBy: none, one or two options, and a nil option
SortOptionLists ==
  {<<>>, <<NilOption, Sort(NameColumn)>>}
    \cup {<<o>> : o \in SortOptions}
    \cup {<<o1, o2>> : o1 \in SortOptions, o2 \in SortOptions}

\* the line numbers of the lines of data, in their order
LineNumbers(data) == [i \in 1..Len(data) |-> data[i].line]

SortInit ==
  /\ r = NewReader(<<>>)
  /\ doc = NewDocument
  /\ res = [op |-> "none", opts |-> <<>>, err |-> NoError, before |-> <<>>,
            order |-> <<>>]
  /\ obs = [rows |-> 0]
  /\ pc = "table"

\* doc.AppendLine(Field("Name"), Field("Age"))
SortAppendHeader ==
  /\ pc = "table"
  /\ Len(doc.lines) = 0
  /\ doc' = AppendLine(doc, <<appendLineField(NameColumn, FALSE),
                              appendLineField(AgeColumn, FALSE)>>).doc
  /\ res' = [res EXCEPT !.op = "AppendLine"]
  /\ UNCHANGED <<r, obs, pc>>

\* doc.AppendLine(row...) for a data line
SortAppendRow ==
  /\ pc = "table"
  /\ Len(doc.lines) >= 1
  /\ obs.rows < SortRows
  /\ \E row \in SortTable : doc' = AppendLine(doc, row).doc
  /\ res' = [res EXCEPT !.op = "AppendLine"]
  /\ obs' = [obs EXCEPT !.rows = @ + 1]
  /\ UNCHANGED <<r, pc>>

\* doc.SortBy(sortOptions...); the result keeps the lines as they were and the
\* line numbers the lines had, in their new order
SortSortBy ==
  /\ pc = "table"
  /\ \E sortOptions \in SortOptionLists :
       /\ doc' = SortBy(doc, sortOptions).doc
       /\ res' = [op |-> "SortBy", opts |-> sortOptions,
                  err |-> SortBy(doc, sortOptions).err,
                  before |-> doc.lines,
                  order |-> LineNumbers(sortPasses(doc, sortOptions, doc.lines, 1))]
  /\ pc' = "sorted"
  /\ UNCHANGED <<r, obs>>

SortNext == SortAppendHeader \/ SortAppendRow \/ SortSortBy

SpecSort == SortInit /\ [][SortNext]_vars

\* SortBy has returned
Sorted == pc = "sorted" /\ res.op = "SortBy"

\* the options that are not nil: the sort keys
Keys(sortOptions) == SelectSeq(sortOptions, LAMBDA o : ~o.nil)

FirstKey == Keys(res.opts)[1]

LastKey == Keys(res.opts)[Len(Keys(res.opts))]

\* the keys before the last
EarlierKeys == SubSeq(Keys(res.opts), 1, Len(Keys(res.opts)) - 1)

\* the document SortBy was called on
BeforeDoc == [doc EXCEPT !.lines = res.before]

\* the line at position i of the result, as it was before SortBy
Orig(i) == res.before[res.order[i]]

Positions == 1..Len(doc.lines)

\* the positions of the result that hold data lines
DataPositions == {i \in Positions : ~IsHeader(BeforeDoc, Orig(i))}

\* the result of the comparison function of key for the lines at positions i and
\* j of the result: negative when it puts the line at i before the line at j
Cmp(key, i, j) == lineCompare(BeforeDoc, key, Orig(i), Orig(j))

\* the order the earlier keys alone give the lines
EarlierOrder == LineNumbers(sortPasses(BeforeDoc, EarlierKeys, res.before, 1))

\* the position the earlier keys alone give the line at position i of the result
EarlierPos(i) == IndexIn(EarlierOrder, res.order[i])

\* the values of the fields of a line
LineValues(line) == [i \in 1..Len(line.fields) |-> line.fields[i].Value]

\* the rows (Zak,100), (Patrick,100), (Jane,79) sorted by name ascending, then
\* age descending
IsExample ==
  /\ Sorted
  /\ res.opts = <<Sort(NameColumn), SortNumberDesc(AgeColumn)>>
  /\ Len(res.before) = 4
  /\ LineValues(res.before[2]) = <<Zak, Age100>>
  /\ LineValues(res.before[3]) = <<Patrick, Age100>>
  /\ LineValues(res.before[4]) = <<Jane, Age79>>

\* the names of the three data lines of the result
ResultNames ==
  <<doc.lines[2].fields[1].Value, doc.lines[3].fields[1].Value,
    doc.lines[4].fields[1].Value>>

\* the ages of the three data lines of the result
ResultAges ==
  <<doc.lines[2].fields[2].Value, doc.lines[3].fields[2].Value,
    doc.lines[4].fields[2].Value>>

C4_OrderedByLastOption ==
  /\ Sorted /\ Len(Keys(res.opts)) >= 1 =>
       \A i \in DataPositions : \A j \in DataPositions :
         i < j =>
           /\ Cmp(LastKey, j, i) >= 0
           /\ Cmp(LastKey, i, j) = 0 => EarlierPos(i) < EarlierPos(j)
  /\ IsExample =>
       ResultAges = <<Age100, Age100, Age79>> /\ ResultNames = <<Patrick, Zak, Jane>>

(***************************************************************************)
(* The header line of a document through AddLine, AppendLine, SortBy and   *)
(* ReIndexLineNumbers                                                      *)
(***************************************************************************)
\* the lines appended: the names of the columns, a row and a row with a null
HeaderTable ==
  { <<appendLineField(NameColumn, FALSE), appendLineField(AgeColumn, FALSE)>>,
    <<appendLineField(Zak, FALSE), appendLineField(Age100, FALSE)>>,
    <<appendLineField(Jane, FALSE), appendLineField(<<>>, TRUE)>> }

HeaderSorts == {<<Sort(NameColumn)>>, <<SortDesc(NameColumn)>>, <<SortNumber(AgeColumn)>>}

\* the position of the line that stood at position pos, after the lines moved
\* into the given order of their former positions
MovedTo(order, pos) == IF pos = 0 THEN 0 ELSE IndexIn(order, pos)

HdrInit ==
  /\ r = NewReader(<<>>)
  /\ doc = NewDocument
  /\ res = [op |-> "none", err |-> NoError]
  /\ obs = [headerPos |-> 0, headerFields |-> <<>>, sorts |-> 0]
  /\ pc = "header"

\* a call that moves no line: the first line given fields is followed from then
\* on as the header line
HdrCall(op, out) ==
  /\ pc = "header"
  /\ doc' = out.doc
  /\ res' = [op |-> op, err |-> out.err]
  /\ obs' = IF obs.headerPos = 0 /\ out.doc.headerLine # 0
            THEN [obs EXCEPT !.headerPos = out.doc.headerLine,
                             !.headerFields = out.doc.lines[out.doc.headerLine].fields]
            ELSE obs
  /\ UNCHANGED <<r, pc>>

HdrAddLine ==
  /\ Len(doc.lines) < MaxHeaderLines
  /\ HdrCall("AddLine", AddLine(doc))

HdrAppendLine ==
  /\ Len(doc.lines) < MaxHeaderLines
  /\ \E row \in HeaderTable : HdrCall("AppendLine", AppendLine(doc, row))

HdrReIndexLineNumbers ==
  HdrCall("ReIndexLineNumbers", [doc |-> ReIndexLineNumbers(doc), err |-> NoError])

HdrSortBy ==
  /\ pc = "header"
  /\ obs.sorts < MaxSorts
  /\ \E sortOptions \in HeaderSorts :
       /\ doc' = SortBy(doc, sortOptions).doc
       /\ res' = [op |-> "SortBy", err |-> SortBy(doc, sortOptions).err]
       /\ obs' = [obs EXCEPT
                    !.sorts = @ + 1,
                    !.headerPos =
                      MovedTo(LineNumbers(sortPasses(doc, sortOptions, doc.lines, 1)), @)]
  /\ UNCHANGED <<r, pc>>

HdrNext == HdrAddLine \/ HdrAppendLine \/ HdrReIndexLineNumbers \/ HdrSortBy

SpecHeader == HdrInit /\ [][HdrNext]_vars

\* the positions of the lines IsHeader holds for
Designated == {i \in 1..Len(doc.lines) : IsHeader(doc, doc.lines[i])}

\* the positions of the lines with fields other than the line at position h
DataLinesBut(h) == {i \in 1..Len(doc.lines) : i # h /\ Len(doc.lines[i].fields) > 0}

\* C11: after SortBy the header line precedes every data line: the line that
\* was established as header stands before every other line with fields.
C11_HeaderStaysFirst ==
  pc = "header" /\ res.op = "SortBy" /\ obs.headerPos # 0 =>
    \A j \in DataLinesBut(obs.headerPos) : obs.headerPos < j

\* the column names the fields of a header line stand for: a null field names
\* its column "-"
HeaderNames(line) ==
  [i \in 1..Len(line.fields) |->
     IF line.fields[i].IsNull THEN <<"-">> ELSE line.fields[i].Value]

\* C12: once the header line is established, the line IsHeader designates is
\* that same line, with the same fields, and these are Headers(), through every
\* later call.
C12_HeaderPositionFixed ==
  pc = "header" /\ obs.headerPos # 0 =>
    /\ Designated = {obs.headerPos}
    /\ doc.lines[obs.headerPos].fields = obs.headerFields
    /\ HeaderNames(doc.lines[obs.headerPos]) = doc.headers

\* the line at position i of the result has a field for the column of key
HasKey(key, i) == HasFieldByName(Orig(i), key.FieldName)

\* no data line without a field for the column of key stands before a data line
\* with one
MissingLast(key) ==
  \A i \in DataPositions : \A j \in DataPositions :
    i < j => ~(~HasKey(key, i) /\ HasKey(key, j))

Year1999 == <<"1", "9", "9", "9">>

Year2024 == <<"2", "0", "2", "4">>

\* the fields compared: numbers, a number beyond the bit size, a text that is no
\* number, years, and a null field
CompareFields ==
  {Field(v, FALSE, 1, 0, AgeColumn, FALSE) :
     v \in {Age79, Age100, Age200, AgeUnknown, Year1999, Year2024}}
    \cup {Field(<<>>, TRUE, 1, 0, AgeColumn, FALSE)}

Coercions == {"text", "number", "number16", "time"}

\* the ascending option of a coercion
AscOption(coercion) ==
  IF coercion = "text" THEN Sort(AgeColumn)
  ELSE IF coercion = "number" THEN SortNumber(AgeColumn)
  ELSE IF coercion = "number16" THEN SortNumberBase(AgeColumn, 16)
  ELSE SortTime(AgeColumn, LongYear)

\* the descending option of a coercion
DescOption(coercion) ==
  IF coercion = "text" THEN SortDesc(AgeColumn)
  ELSE IF coercion = "number" THEN SortNumberDesc(AgeColumn)
  ELSE IF coercion = "number16" THEN SortNumberBaseDesc(AgeColumn, 16)
  ELSE SortTimeDesc(AgeColumn, LongYear)

CmpInit ==
  /\ r = NewReader(<<>>)
  /\ doc = NewDocument
  /\ \E coercion \in Coercions : \E a \in CompareFields : \E b \in CompareFields :
       res = [coercion |-> coercion, a |-> a, b |-> b, done |-> FALSE,
              asc |-> 0, desc |-> 0, ascSwapped |-> 0, descSwapped |-> 0]
  /\ obs = [calls |-> 0]
  /\ pc = "compare"

\* sortFieldsColumn on (a, b) and on (b, a), ascending and descending
CmpCompare ==
  /\ pc = "compare"
  /\ ~res.done
  /\ res' = [res EXCEPT
               !.done = TRUE,
               !.asc = sortFieldsColumn(AscOption(res.coercion), res.a, res.b),
               !.desc = sortFieldsColumn(DescOption(res.coercion), res.a, res.b),
               !.ascSwapped = sortFieldsColumn(AscOption(res.coercion), res.b, res.a),
               !.descSwapped = sortFieldsColumn(DescOption(res.coercion), res.b, res.a)]
  /\ obs' = [obs EXCEPT !.calls = @ + 4]
  /\ UNCHANGED <<r, doc, pc>>

CmpNext == CmpCompare

SpecCompare == CmpInit /\ [][CmpNext]_vars

Compared == pc = "compare" /\ res.done

\* C14: direction negates the base comparator: for every pair of fields and
\* every coercion the result under the descending option is the negation of the
\* result under the ascending option.
C14_DirectionNegates ==
  Compared =>
    /\ res.desc = 0 - res.asc
    /\ res.descSwapped = 0 - res.ascSwapped

\* the radix of the number coercions
RadixOf(coercion) == IF coercion = "number16" THEN 16 ELSE 10

\* the text of the field is an integer of the radix within the bit size
ParsesAsNumber(f, coercion) ==
  ~f.IsNull /\ ParseInt(f.Value, RadixOf(coercion), PtrSize).err = "nil"

\* the text of the field is no integer of the radix
NoNumber(f, coercion) ==
  ~f.IsNull /\ ParseInt(f.Value, RadixOf(coercion), PtrSize).err = "syntax"

\* C15: integer comparator: a field whose text does not parse as an integer of
\* the radix sorts after every field that does, in either argument order, and
\* two fields that both fail to parse compare as 0 in both argument orders.
C15_UnparsableLast ==
  Compared /\ res.coercion \in {"number", "number16"} =>
    /\ NoNumber(res.a, res.coercion) /\ ParsesAsNumber(res.b, res.coercion) =>
         res.asc > 0 /\ res.ascSwapped < 0
    /\ NoNumber(res.a, res.coercion) /\ NoNumber(res.b, res.coercion) =>
         res.asc = 0 /\ res.ascSwapped = 0

\* the field of the age column of the line at position i of the result
AgeField(i) == FieldByName(Orig(i), AgeColumn)

\* the line at position i of the result has an age whose text is a decimal
\* integer
HasIntegerAge(i) ==
  /\ HasFieldByName(Orig(i), AgeColumn)
  /\ ~AgeField(i).IsNull
  /\ ParseUint(AgeField(i).Value, 10).err = "nil"

\* the integer value of the age of the line at position i
AgeValue(i) == ParseUint(AgeField(i).Value, 10).val

\* C16: numeric sort orders by value: after SortBy with one number option on a
\* column in which every data line has an integer, the data lines are in the
\* order of the integer values, ascending for SortNumber and descending for
\* SortNumberDesc, and lines of equal value keep their prior order.
C16_NumericSortByValue ==
  /\ Sorted
  /\ res.opts \in {<<SortNumber(AgeColumn)>>, <<SortNumberDesc(AgeColumn)>>}
  /\ \A i \in DataPositions : HasIntegerAge(i)
  => \A i \in DataPositions : \A j \in DataPositions :
       i < j =>
         /\ ~LastKey.Desc => AgeValue(i) <= AgeValue(j)
         /\ LastKey.Desc => AgeValue(i) >= AgeValue(j)
         /\ AgeValue(i) = AgeValue(j) => res.order[i] < res.order[j]

\* the text of field i (1-based) of a line as the alignment asks for it: padded
\* with spaces to the greatest width its column has held, unless it is the last
AlignedField(line, i) ==
  IF i < Len(line.fields)
  THEN SerializeText(line.fields[i])
         \o [k \in 1..(obs.widest[i] - Len(SerializeText(line.fields[i]))) |-> " "]
  ELSE SerializeText(line.fields[i])

\* the fields of a line from the i-th on, each but the first after one separator
RECURSIVE AlignedFields(_, _)
AlignedFields(line, i) ==
  IF i > Len(line.fields) THEN <<>>
  ELSE (IF i = 1 THEN <<>> ELSE doc.padding) \o AlignedField(line, i)
         \o AlignedFields(line, i + 1)

\* the comment of a line after one separator, or alone on a line without fields
AlignedComment(line) ==
  IF Len(line.comment) = 0 THEN <<>>
  ELSE (IF Len(line.fields) = 0 THEN <<>> ELSE doc.padding) \o <<"#">> \o line.comment

NullInputs ==
  { <<"A", " ", "B", "\n", "1", " ", "-">>,
    <<"A", " ", "B", "\n", "-", " ", "1">>,
    <<"A", " ", "B", "\n", "1">> }

NullRows ==
  { <<appendLineField(<<"a">>, FALSE), appendLineField(<<"b", "b">>, FALSE)>>,
    <<appendLineField(<<>>, TRUE), appendLineField(<<"a">>, FALSE)>>,
    <<appendLineField(<<"a">>, FALSE)>> }

NulInit ==
  /\ r = NewReader(<<>>)
  /\ doc = NewDocument
  /\ res = [op |-> "none", err |-> NoError, written |-> <<>>, second |-> NewDocument]
  /\ obs = [updates |-> 0]
  /\ pc = "fields"

NulCall(op, out) ==
  /\ doc' = out.doc
  /\ res' = [res EXCEPT !.op = op, !.err = out.err]

\* the document is read from bytes
NulToDocument ==
  /\ pc = "fields"
  /\ res.op = "none"
  /\ \E input \in NullInputs : \E nullTrailingColumns \in BOOLEAN :
       NulCall("ToDocument", ToDocument(Reader(input, TRUE, TRUE, nullTrailingColumns)))
  /\ UNCHANGED <<r, obs, pc>>

NulAppendLine ==
  /\ pc = "fields"
  /\ Len(doc.lines) < MaxDocLines
  /\ \E row \in NullRows : NulCall("AppendLine", AppendLine(doc, row))
  /\ UNCHANGED <<r, obs, pc>>

NulAppendNull ==
  /\ pc = "fields"
  /\ Len(doc.lines) > 0
  /\ Len(doc.lines[Len(doc.lines)].fields) < MaxAppends
  /\ NulCall("AppendNull", AppendNullTo(doc, Len(doc.lines)))
  /\ UNCHANGED <<r, obs, pc>>

\* UpdateField on a field of a line, or one past its fields
NulUpdateField ==
  /\ pc = "fields"
  /\ obs.updates < MaxUpdates
  /\ \E ln \in 1..Len(doc.lines) : \E fieldInd \in 0..Len(doc.lines[ln].fields) :
       \E val \in {<<"a">>, <<>>} :
         NulCall("UpdateField", UpdateField(doc, ln, fieldInd, val))
  /\ obs' = [obs EXCEPT !.updates = @ + 1]
  /\ UNCHANGED <<r, pc>>

\* the document is written and the bytes are read again
NulRoundTrip ==
  /\ pc = "fields"
  /\ Len(doc.lines) > 0
  /\ res' = [op |-> "WriteAll", err |-> WriteAll(doc).err,
             written |-> WriteAll(doc).buf,
             second |-> ToDocument(NewReader(WriteAll(doc).buf)).doc]
  /\ doc' = WriteAll(doc).doc
  /\ pc' = "reparsed"
  /\ UNCHANGED <<r, obs>>

NulNext ==
  NulToDocument \/ NulAppendLine \/ NulAppendNull \/ NulUpdateField \/ NulRoundTrip

SpecNull == NulInit /\ [][NulNext]_vars

\* the positions <<line, field>> of the null fields of a document
NullFields(d) ==
  {p \in (1..Len(d.lines)) \X (1..MaxAppends) :
     p[2] <= Len(d.lines[p[1]].fields) /\ d.lines[p[1]].fields[p[2]].IsNull}

\* C18: null field invariant. At every point every field whose null flag is set
\* has an empty value and serializes to exactly "-"; and once the document is
\* written without error and read again, the field at the place of a null field
\* is null with an empty value.
C18_NullFieldsEmpty ==
  /\ \A p \in NullFields(doc) :
       /\ doc.lines[p[1]].fields[p[2]].Value = <<>>
       /\ SerializeText(doc.lines[p[1]].fields[p[2]]) = <<"-">>
  /\ pc = "reparsed" /\ res.err.kind = "nil" =>
       \A p \in NullFields(doc) :
         /\ p[1] <= Len(res.second.lines)
         /\ p[2] <= Len(res.second.lines[p[1]].fields)
         /\ res.second.lines[p[1]].fields[p[2]].IsNull
         /\ res.second.lines[p[1]].fields[p[2]].Value = <<>>

\* the step is a call of Append or AppendNull on the last line of the document
AppendStep == pc = "document" /\ res'.op \in {"Append", "AppendNull"}

\* C19: a rejected append changes nothing: when Append or AppendNull returns an
\* error, the lines with their fields and field counts, the header list, the
\* header line and the table of column widths are as they were before the call.
C19_RejectedAppendChangesNothing ==
  [][AppendStep /\ res'.err.kind # "nil" =>
       /\ doc'.lines = doc.lines
       /\ doc'.headers = doc.headers
       /\ doc'.headerLine = doc.headerLine
       /\ doc'.maxColumnWidth = doc.maxColumnWidth]_vars

\* Append or AppendNull was refused on a line after a header of two fields
C19_Witness ==
  /\ pc = "document"
  /\ res.op \in {"Append", "AppendNull"}
  /\ res.err.kind = "ErrFieldCount"
  /\ Len(doc.headers) = 2
  /\ doc.lines[LastLine].fieldCount = 2

\* the last line of the document is a data line: a line after the header line
LastIsDataLine == doc.headerLine # 0 /\ Len(doc.lines) > doc.headerLine

MaxCalls == 2

\* the greatest number of raw lines of the input of that reader
MaxCallLines == 2

\* the raw lines of that input: those of ReaderLines, a field in front of an
\* unterminated quote, and a field in front of a dash that is no null marker
CallLines ==
  ReaderLines \cup { <<"1", " ", DQ, "x">>, <<"1", " ", "-", "b">> }

CallInputs ==
  {JoinLines(ls, e) : ls \in Strings(CallLines, MaxCallLines), e \in Endings}

\* the errors of the Read calls from reader rd on, up to the end of the input
RECURSIVE ReadErrors(_)
ReadErrors(rd) ==
  IF rd.ended \/ Read(rd).err.kind = "EOF" THEN <<>>
  ELSE (IF Read(rd).err.kind # "nil" THEN <<Read(rd).err>> ELSE <<>>)
         \o ReadErrors(Read(rd).r)

\* the number of Read calls from reader rd on that return a line
RECURSIVE ReadCount(_)
ReadCount(rd) ==
  IF rd.ended \/ Read(rd).err.kind = "EOF" THEN 0 ELSE 1 + ReadCount(Read(rd).r)

\* the number of Read calls from reader rd on up to the first that fails, that
\* one included
RECURSIVE ReadsToFirstError(_)
ReadsToFirstError(rd) ==
  IF rd.ended \/ Read(rd).err.kind = "EOF" THEN 0
  ELSE IF Read(rd).err.kind # "nil" THEN 1
  ELSE 1 + ReadsToFirstError(Read(rd).r)

CallInit ==
  /\ r \in {[Reader(input, t, h, n) EXCEPT !.AllowPartialError = a] :
              input \in CallInputs, t \in BOOLEAN, h \in BOOLEAN, n \in BOOLEAN,
              a \in BOOLEAN}
  /\ doc = NewDocument
  /\ res = [op |-> "none", returns |-> TRUE, err |-> "nil", Errs |-> <<>>,
            records |-> <<>>, before |-> NewReader(<<>>)]
  /\ obs = [calls |-> 0]
  /\ pc = "calls"

CallRead ==
  /\ pc = "calls"
  /\ obs.calls < MaxCalls
  /\ r' = Read(r).r
  /\ res' = [op |-> "Read", returns |-> TRUE, err |-> Read(r).err.kind,
             Errs |-> <<Read(r).err>>, records |-> <<Read(r).line>>, before |-> r]
  /\ obs' = [obs EXCEPT !.calls = @ + 1]
  /\ UNCHANGED <<doc, pc>>

\* ReadAll; a call that does not return leaves the program in it for good
CallReadAll ==
  /\ pc = "calls"
  /\ obs.calls < MaxCalls
  /\ r' = ReadAll(r).r
  /\ res' = [op |-> "ReadAll", returns |-> ReadAll(r).returns, err |-> ReadAll(r).err,
             Errs |-> ReadAll(r).Errs, records |-> ReadAll(r).records, before |-> r]
  /\ obs' = [obs EXCEPT !.calls = @ + 1]
  /\ pc' = IF ReadAll(r).returns THEN "calls" ELSE "hung"
  /\ UNCHANGED doc

CallToDocument ==
  /\ pc = "calls"
  /\ obs.calls < MaxCalls
  /\ r' = ToDocument(r).r
  /\ doc' = ToDocument(r).doc
  /\ res' = [op |-> "ToDocument", returns |-> TRUE, err |-> ToDocument(r).err.kind,
             Errs |-> <<ToDocument(r).err>>, records |-> <<>>, before |-> r]
  /\ obs' = [obs EXCEPT !.calls = @ + 1]
  /\ UNCHANGED pc

CallNext == CallRead \/ CallReadAll \/ CallToDocument

SpecCalls == CallInit /\ [][CallNext]_vars

\* C21: ReadAll error policy is configurable. In fail-fast mode (partial errors
\* not allowed) ReadAll stops at the first line that has an error and returns
\* that error; in collect-all mode it reads every line to the end of the input
\* and returns all per-line errors together.
C21_ReadAllErrorPolicy ==
  pc = "calls" /\ res.op = "ReadAll" =>
    IF r.AllowPartialError
    THEN /\ r.ended
         /\ Len(res.records) = ReadCount(res.before)
         /\ res.Errs = ReadErrors(res.before)
    ELSE /\ Len(res.Errs) <= 1
         /\ Len(res.Errs) = 1 =>
              /\ res.Errs[1] = ReadErrors(res.before)[1]
              /\ Len(res.records) <= ReadsToFirstError(res.before)

\* the last call was Read and returned an error for a line
ReadFailed ==
  pc = "calls" /\ res.op = "Read" /\ res.err \notin {"nil", "EOF", "ErrReaderEnded"}

\* the raw line the last Read consumed, and what the tokenizer returns for it
ReadRaw == readLine(res.before).line
ReadParsed == parseLine(res.before.numLine + 1, ReadRaw)

\* the values of the fields among the first n tokens
FieldValuesOf(tokens, n) ==
  LET ts == SelectSeq(SubSeq(tokens, 1, n), LAMBDA t : ~t.IsComment)
  IN [j \in 1..Len(ts) |-> TokenValue(ts[j])]

\* the values of the fields of the line that were parsed before the error: all
\* the tokenizer returned when it failed, the tokens in front of a misplaced
\* comment, the tokens in front of the surplus one of an over-long row, and
\* every token of a short row
ParsedBeforeError ==
  IF res.err \in {"ErrBareQuote", "ErrInvalidNull"}
  THEN FieldValuesOf(ReadParsed.fields, Len(ReadParsed.fields))
  ELSE IF res.err = "ErrCommentPlacement"
  THEN FieldValuesOf(ReadParsed.fields, res.Errs[1].FieldPosition - 1)
  ELSE FieldValuesOf(ReadParsed.fields,
                     Min(Len(ReadParsed.fields), Len(res.before.headers)))

\* C22: partial data is never discarded. Whenever Read returns an error for a
\* line (bare quote, invalid null, comment placement, over- or under-count), the
\* line returned with the error holds every field of that line that was parsed
\* before the error, in order.
C22_PartialDataKept ==
  ReadFailed =>
    [j \in 1..Len(res.records[1].fields) |-> res.records[1].fields[j].Value]
      = ParsedBeforeError

(***************************************************************************)
(* Tokenizer: parseLine on one raw line                                    *)
(***************************************************************************)
TokAlphabet == {"a", DQ, "-", " ", "/", "#"}

TokInit ==
  /\ r = NewReader(<<>>)
  /\ doc = NewDocument
  /\ \E line \in Strings(TokAlphabet, MaxLineLen) :
       res = [line |-> line, done |-> FALSE, fields |-> <<>>, err |-> NoError]
  /\ obs = [calls |-> 0]
  /\ pc = "tokens"

TokParseLine ==
  /\ pc = "tokens"
  /\ ~res.done
  /\ res' = [res EXCEPT !.done = TRUE,
                        !.fields = parseLine(1, res.line).fields,
                        !.err = parseLine(1, res.line).err]
  /\ obs' = [obs EXCEPT !.calls = @ + 1]
  /\ UNCHANGED <<r, doc, pc>>

TokNext == TokParseLine

SpecTokens == TokInit /\ [][TokNext]_vars

Tokenized == pc = "tokens" /\ res.done

\* the index after the quote that closes the quoted field whose content starts
\* at index j, or -1 when no quote closes it: inside the field two quotes are an
\* escaped quote and quote, slash, quote is an escaped newline
RECURSIVE QuoteEnd(_, _)
QuoteEnd(line, j) ==
  IF j >= Len(line) THEN 0 - 1
  ELSE IF At(line, j) # DQ THEN QuoteEnd(line, j + 1)
  ELSE IF At(line, j + 1) = DQ THEN QuoteEnd(line, j + 2)
  ELSE IF At(line, j + 1) = "/" /\ At(line, j + 2) = DQ THEN QuoteEnd(line, j + 3)
  ELSE j + 1

\* the index after the unquoted value that starts at index j
RECURSIVE BareEnd(_, _)
BareEnd(line, j) ==
  IF j >= Len(line) \/ IsFieldDelimiter(At(line, j)) THEN j ELSE BareEnd(line, j + 1)

\* the unquoted value in line[i..e) is well formed: it holds no quote and no
\* comment sign, and a dash only as the whole value
BareValueOk(line, i, e) ==
  /\ \A k \in i..(e - 1) : At(line, k) \notin {DQ, "#"}
  /\ (\E k \in i..(e - 1) : At(line, k) = "-") => e = i + 1

\* the index of the opening quote of the quoted field that is never closed, when
\* the line is well formed up to that quote; -1 for every other line
RECURSIVE UnterminatedAt(_, _)
UnterminatedAt(line, i) ==
  IF i >= Len(line) THEN 0 - 1
  ELSE IF IsFieldDelimiter(At(line, i)) THEN UnterminatedAt(line, i + 1)
  ELSE IF At(line, i) = "#" THEN 0 - 1
  ELSE IF At(line, i) = DQ
  THEN IF QuoteEnd(line, i + 1) = 0 - 1 THEN i
       ELSE IF QuoteEnd(line, i + 1) >= Len(line)
               \/ IsFieldDelimiter(At(line, QuoteEnd(line, i + 1)))
       THEN UnterminatedAt(line, QuoteEnd(line, i + 1))
       ELSE 0 - 1
  ELSE IF BareValueOk(line, i, BareEnd(line, i))
  THEN UnterminatedAt(line, BareEnd(line, i))
  ELSE 0 - 1

\* C23: unterminated quote. A line in which a quoted field is opened and never
\* closed yields a bare-quote error whose reported column is the column of the
\* opening quote of that field, whatever precedes or follows it on the line.
C23_UnterminatedQuote ==
  Tokenized /\ UnterminatedAt(res.line, 0) >= 0 =>
    /\ res.err.kind = "ErrBareQuote"
    /\ res.err.ColumnPosition = UnterminatedAt(res.line, 0)

\* the words of a line: the maximal runs of bytes that are no delimiters, from
\* index i on
RECURSIVE Words(_, _)
Words(line, i) ==
  IF i >= Len(line) THEN <<>>
  ELSE IF IsFieldDelimiter(At(line, i)) THEN Words(line, i + 1)
  ELSE <<SubSeq(line, i + 1, BareEnd(line, i))>> \o Words(line, BareEnd(line, i))

QuotedDash == <<DQ, "-", DQ>>

HasDash(word) == \E k \in 1..Len(word) : word[k] = "-"

\* the word holds two dashes in a row: the double-dash pattern
HasDoubleDash(word) == \E k \in 1..(Len(word) - 1) : word[k] = "-" /\ word[k + 1] = "-"

\* the word holds an unquoted dash that is not isolated by delimiters or the line
\* start or end
DashNotIsolated(word) == HasDash(word) /\ word # <<"-">> /\ word # QuotedDash

\* a line without comment sign and slash in which every quote belongs to a
\* quoted dash
DashLine(line) ==
  /\ \A k \in 1..Len(line) : line[k] \notin {"#", "/"}
  /\ \A j \in 1..Len(Words(line, 0)) :
       (\E k \in 1..Len(Words(line, 0)[j]) : Words(line, 0)[j][k] = DQ)
         => Words(line, 0)[j] = QuotedDash

\* what C24 asks of the field parsed from a word
ClassifiedAs(field, word) ==
  IF word = <<"-">> THEN field.IsNull /\ field.Value = <<>>
  ELSE IF word = QuotedDash THEN ~field.IsNull /\ field.Value = <<"-">>
  ELSE ~field.IsNull

\* C24: null marker classification. An unquoted dash yields a null field with an
\* empty value exactly when it is isolated by delimiters or the line start or
\* end; an unquoted dash that is not so isolated yields an invalid-null error
\* unless it is part of the double-dash pattern; a quoted dash yields a field
\* that is not null and has the value "-".
C24_NullMarker ==
  Tokenized /\ DashLine(res.line) =>
    IF \E j \in 1..Len(Words(res.line, 0)) :
         DashNotIsolated(Words(res.line, 0)[j]) /\ ~HasDoubleDash(Words(res.line, 0)[j])
    THEN res.err.kind = "ErrInvalidNull"
    ELSE (\A j \in 1..Len(Words(res.line, 0)) : ~HasDoubleDash(Words(res.line, 0)[j])) =>
           /\ res.err.kind = "nil"
           /\ Len(res.fields) = Len(Words(res.line, 0))
           /\ \A j \in 1..Len(res.fields) :
                ClassifiedAs(res.fields[j], Words(res.line, 0)[j])

(***************************************************************************)
(* Rendering: Field.SerializeText on one field                             *)
(***************************************************************************)
RenderAlphabet == {"a", DQ, "-", " ", "/", "\n"}

RenderInit ==
  /\ r = NewReader(<<>>)
  /\ doc = NewDocument
  /\ \E value \in Strings(RenderAlphabet, MaxLineLen) : \E isNull \in BOOLEAN :
       res = [field |-> Field(value, isNull, 0, 1, <<>>, FALSE), done |-> FALSE,
              text |-> <<>>]
  /\ obs = [calls |-> 0]
  /\ pc = "render"

RenderSerializeText ==
  /\ pc = "render"
  /\ ~res.done
  /\ res' = [res EXCEPT !.done = TRUE, !.text = SerializeText(res.field)]
  /\ obs' = [obs EXCEPT !.calls = @ + 1]
  /\ UNCHANGED <<r, doc, pc>>

RenderNext == RenderSerializeText

SpecRender == RenderInit /\ [][RenderNext]_vars

\* the value with every quote doubled and every newline replaced by the escape
\* token
Escaped(value) == ReplaceAll(ReplaceAll(value, DQ, <<DQ, DQ>>), "\n", NewlineEscape)

\* the escaped value holds whitespace, a dash, the quote-escape pair or the
\* newline-escape token
NeedsQuotes(e) ==
  \/ ContainsDelimiter(e)
  \/ Contains(e, <<"-">>)
  \/ Contains(e, <<DQ, DQ>>)
  \/ Contains(e, NewlineEscape)

\* C25: field rendering. A null field renders as "-"; the empty string renders as
\* two quotes; any other value renders as its escaped form (quotes doubled,
\* newlines replaced by the escape token), wrapped in exactly one pair of quotes
\* when the escaped form holds whitespace, a dash, the quote-escape pair or the
\* newline-escape token, and not wrapped otherwise.
C25_FieldRendering ==
  pc = "render" /\ res.done =>
    res.text = IF res.field.IsNull THEN <<"-">>
               ELSE IF res.field.Value = <<>> THEN <<DQ, DQ>>
               ELSE IF NeedsQuotes(Escaped(res.field.Value))
               THEN Wrap(Escaped(res.field.Value))
               ELSE Escaped(res.field.Value)

(***************************************************************************)
(* Rendering: WriteLine next to Write and WriteAll, with and without the   *)
(* header                                                                  *)
(***************************************************************************)
\* the greatest number of lines of the document, and of calls made on it
MaxRenderLines == 3
MaxRenderCalls == 4

\* the rows appended: a header, a row with a short and a long value, a short row
RenderRows ==
  { <<appendLineField(<<"a", "b">>, FALSE), appendLineField(<<"c">>, FALSE)>>,
    <<appendLineField(<<"x">>, FALSE), appendLineField(<<"y", "y", "y">>, FALSE)>>,
    <<appendLineField(<<"x">>, FALSE)>> }

WlInit ==
  /\ r = NewReader(<<>>)
  /\ doc = NewDocument
  /\ res = [op |-> "none", n |-> 0, includeHeader |-> FALSE, buf |-> <<>>,
            err |-> NoError]
  /\ obs = [calls |-> 0]
  /\ pc = "writeline"

WlCall(op, n, includeHeader, out, buf) ==
  /\ pc = "writeline"
  /\ obs.calls < MaxRenderCalls
  /\ doc' = out.doc
  /\ res' = [op |-> op, n |-> n, includeHeader |-> includeHeader, buf |-> buf,
             err |-> out.err]
  /\ obs' = [obs EXCEPT !.calls = @ + 1]
  /\ UNCHANGED <<r, pc>>

WlAddLine ==
  /\ Len(doc.lines) < MaxRenderLines
  /\ WlCall("AddLine", 0, FALSE, AddLine(doc), <<>>)

WlAppendLine ==
  /\ Len(doc.lines) < MaxRenderLines
  /\ \E row \in RenderRows : WlCall("AppendLine", 0, FALSE, AppendLine(doc, row), <<>>)

WlWrite ==
  /\ Len(doc.lines) > 0
  /\ WlCall("Write", 0, FALSE, Write(doc), Write(doc).buf)

WlWriteLine ==
  \E n \in 0..(Len(doc.lines) + 1) : \E includeHeader \in BOOLEAN :
    WlCall("WriteLine", n, includeHeader, WriteLine(doc, n, includeHeader),
           WriteLine(doc, n, includeHeader).buf)

WlWriteAll ==
  /\ Len(doc.lines) > 0
  /\ WlCall("WriteAll", 0, FALSE, WriteAll(doc), WriteAll(doc).buf)

WlSetHideHeaderStyle ==
  \E v \in BOOLEAN :
    /\ doc.EmitHeaders # v
    /\ WlCall("SetHideHeaderStyle", 0, FALSE,
              [doc |-> SetHideHeaderStyle(doc, v), err |-> NoError], <<>>)

WlNext ==
  WlAddLine \/ WlAppendLine \/ WlWrite \/ WlWriteLine \/ WlWriteAll
    \/ WlSetHideHeaderStyle

SpecWriteLine == WlInit /\ [][WlNext]_vars

\* the document with every entry of the max-width table raised by three
WidenedColumns(d) ==
  [d EXCEPT !.maxColumnWidth = [c \in DOMAIN d.maxColumnWidth |-> d.maxColumnWidth[c] + 3]]

\* C26: WriteLine is stateless. A call of WriteLine(n, includeHeader), successful
\* or not, leaves the write cursor, the started-writing state, the max-width
\* table and the lines unchanged, so AddLine is permitted afterwards exactly when
\* it was before and Write and WriteAll return what they would have returned;
\* and the bytes WriteLine returns do not depend on the max-width table.
C26_WriteLineStateless ==
  [][pc = "writeline" /\ res'.op = "WriteLine" /\ obs'.calls = obs.calls + 1 =>
       /\ doc'.currentWriteLine = doc.currentWriteLine
       /\ doc'.startedWriting = doc.startedWriting
       /\ doc'.maxColumnWidth = doc.maxColumnWidth
       /\ doc'.lines = doc.lines
       /\ AddLine(doc').err = AddLine(doc).err
       /\ Write(doc').buf = Write(doc).buf
       /\ WriteAll(doc').buf = WriteAll(doc).buf
       /\ res'.buf = WriteLine(WidenedColumns(doc), res'.n, res'.includeHeader).buf]_vars

\* WriteLine rendered the second line under its header before anything was
\* written, and the document has not started writing
C26_Witness ==
  /\ pc = "writeline"
  /\ res.op = "WriteLine" /\ res.n = 2 /\ res.includeHeader
  /\ res.err.kind = "nil"
  /\ res.buf = <<"a", "b", " ", " ", "c", "\n", "x", " ", " ", " ", "y", "y", "y">>
  /\ ~doc.startedWriting

\* the line holds exactly the values vals, in order: a null field for every "-"
\* and a field that is not null, with the value, for every other value
HoldsValues(line, vals) ==
  /\ Len(line.fields) = Len(vals)
  /\ \A i \in 1..Len(vals) :
       IF vals[i] = <<"-">> THEN line.fields[i].IsNull
       ELSE ~line.fields[i].IsNull /\ line.fields[i].Value = vals[i]

\* C27: AppendValues(v1, ..., vn) adds one line holding exactly n fields in
\* argument order, where each argument equal to "-" becomes one null field and
\* every other argument one field that is not null and has that value.
C27_AppendValues ==
  [][pc = "document" /\ res'.op = "AppendValues" /\ res'.err.kind = "nil" =>
       /\ Len(doc'.lines) = Len(doc.lines) + 1
       /\ \E vals \in AppendValueLists :
            /\ AppendValues(doc, vals).doc = doc'
            /\ HoldsValues(doc'.lines[Len(doc'.lines)], vals)]_vars

\* C28: column names resolve for every column. In a tabular document with
\* headers every field of a data line at an index below the header count has
\* the header value of its column as FieldName, the last column included, so
\* FieldByName finds a field for the header of every column the line has.
C28_ColumnNamesResolve ==
  pc = "document" /\ doc.Tabular /\ doc.hasHeaders /\ doc.headerLine # 0 =>
    \A k \in 1..Len(doc.lines) : k > doc.headerLine =>
      \A i \in 1..Len(doc.lines[k].fields) : i <= Len(doc.headers) =>
        /\ doc.lines[k].fields[i].FieldName = doc.headers[i]
        /\ HasFieldByName(doc.lines[k], doc.headers[i])

\* C29: no panic on malformed input. For every input and every reader
\* configuration each call of Read, ReadAll and ToDocument returns a value or an
\* error: no call panics and no call fails to return.
C29_CallsReturn == pc = "calls" /\ res.returns /\ res.err # "panic"

\* the renders of the lines of d from line k on, the line numbered but left out
RECURSIVE RendersBut(_, _, _)
RendersBut(d, k, but) ==
  IF k > Len(d.lines) THEN <<>>
  ELSE (IF k = but THEN <<>> ELSE writeLineBytes(d, d.lines[k]))
         \o RendersBut(d, k + 1, but)

\* WriteAll is called on a document with a header line and EmitHeaders false,
\* before anything was written; with the header emitted it would succeed
SuppressedWriteAll ==
  /\ pc = "writeline"
  /\ res'.op = "WriteAll" /\ obs'.calls = obs.calls + 1
  /\ doc.hasHeaders /\ ~doc.EmitHeaders /\ doc.headerLine # 0
  /\ doc.currentWriteLine = 0
  /\ WriteAll([doc EXCEPT !.EmitHeaders = TRUE]).err.kind = "nil"

\* C30: header suppression. For a document with headers and EmitHeaders false,
\* WriteAll returns without error and its output is exactly the renders of all
\* lines except the header line, in order: the header line is never emitted and
\* the cursor moves past it, so every data line is emitted.
C30_HeaderSuppression ==
  [][SuppressedWriteAll =>
       /\ res'.err.kind = "nil"
       /\ res'.buf = RendersBut(doc, 1, doc.headerLine)
       /\ doc'.currentWriteLine = Len(doc.lines)]_vars

====
